---------------------------- MODULE Spec2Model ----------------------------
(***************************************************************************)
(* A model of the quantized index of Better-Binary-Quantization            *)
(* (rust-wasm/src): QuantizedIndex::new, build_index and                   *)
(* search_nearest_neighbors, with the scalar quantizer, the dot-product    *)
(* kernels and the scorer they call.                                       *)
(*                                                                         *)
(* f32 values are modelled as decimal fixed-point numbers (an integer n    *)
(* stands for n / SCALE) together with NaN, +Inf and -Inf.  Arithmetic     *)
(* rounds to the nearest representable value and overflows to an infinity, *)
(* as f32 arithmetic does, only with fewer digits and a smaller range.     *)
(* A Rust panic (f32::clamp with min > max or a NaN bound, an index out of *)
(* bounds) is an outcome of its own, "panic", beside Ok and Err.           *)
(***************************************************************************)
EXTENDS Integers, Sequences, FiniteSets, TLC

(***************************************************************************)
(* f32                                                                     *)
(***************************************************************************)
SCALE == 100 * 100
FMAX == 20000 * SCALE
PInf == FMAX + 1
NInf == -(FMAX + 1)
NaN == FMAX + 3

IsNaN(x) == x = NaN
IsInf(x) == x = PInf \/ x = NInf
is_finite(x) == x >= -FMAX /\ x <= FMAX

Abs(n) == IF n < 0 THEN -n ELSE n
Sgn(n) == IF n < 0 THEN -1 ELSE IF n > 0 THEN 1 ELSE 0
\* a finite result, or the infinity it overflows to
Fin(n) == IF n > FMAX THEN PInf ELSE IF n < -FMAX THEN NInf ELSE n
FromInt(n) == Fin(n * SCALE)
\* the decimal literal num / den
Lit(num, den) == (num * SCALE) \div den

FNeg(x) == IF IsNaN(x) THEN NaN ELSE -x
FAdd(x, y) ==
    IF IsNaN(x) \/ IsNaN(y) THEN NaN
    ELSE IF IsInf(x) THEN (IF IsInf(y) /\ y # x THEN NaN ELSE x)
    ELSE IF IsInf(y) THEN y
    ELSE Fin(x + y)
FSub(x, y) == FAdd(x, FNeg(y))

\* |a| * |b| / SCALE for finite a, b >= 0, rounded to nearest, without
\* leaving the 32-bit integers
MulAbs(a, b) ==
    LET ah == a \div SCALE
        al == a % SCALE
        bh == b \div SCALE
        bl == b % SCALE
    IN  IF ah > 0 /\ bh > (FMAX \div SCALE) \div ah THEN PInf
        ELSE Fin(ah * bh * SCALE + ah * bl + al * bh
                 + (al * bl + SCALE \div 2) \div SCALE)
FMul(x, y) ==
    IF IsNaN(x) \/ IsNaN(y) THEN NaN
    ELSE IF IsInf(x) \/ IsInf(y)
         THEN (IF x = 0 \/ y = 0 THEN NaN
               ELSE IF Sgn(x) * Sgn(y) > 0 THEN PInf ELSE NInf)
    ELSE LET m == MulAbs(Abs(x), Abs(y))
         IN  IF Sgn(x) * Sgn(y) < 0 THEN -m ELSE m

\* the digits of r / b after the point, r < b, one decimal digit per step
RECURSIVE DivDigits(_, _, _, _)
DivDigits(r, b, acc, left) ==
    IF left = 1 THEN <<acc, r>>
    ELSE DivDigits((r * 10) % b, b, acc * 10 + (r * 10) \div b, left \div 10)
\* |a| / |b| * SCALE for finite a >= 0, b > 0, rounded to nearest
DivAbs(a, b) ==
    LET q == a \div b
        d == DivDigits(a % b, b, 0, SCALE)
    IN  IF q > FMAX \div SCALE THEN PInf
        ELSE Fin(q * SCALE + d[1] + (IF 2 * d[2] >= b THEN 1 ELSE 0))
FDiv(x, y) ==
    IF IsNaN(x) \/ IsNaN(y) THEN NaN
    ELSE IF IsInf(x) THEN (IF IsInf(y) THEN NaN
                           ELSE IF Sgn(x) * (IF y < 0 THEN -1 ELSE 1) > 0
                                THEN PInf ELSE NInf)
    ELSE IF IsInf(y) THEN 0
    ELSE IF y = 0 THEN (IF x = 0 THEN NaN ELSE IF x > 0 THEN PInf ELSE NInf)
    ELSE LET m == DivAbs(Abs(x), Abs(y))
         IN  IF Sgn(x) * Sgn(y) < 0 THEN -m ELSE m

\* comparisons: false whenever an operand is NaN
FLt(x, y) == ~IsNaN(x) /\ ~IsNaN(y) /\ x < y
FLe(x, y) == ~IsNaN(x) /\ ~IsNaN(y) /\ x <= y
FGt(x, y) == FLt(y, x)
FGe(x, y) == FLe(y, x)
FAbs(x) == IF IsNaN(x) THEN NaN ELSE Abs(x)

\* f32::sqrt: the largest r with r * r <= x, by bisection
\* (r / SCALE)^2 <= x / SCALE, exactly, for 0 <= r < 150 * SCALE
SqLe(r, x) ==
    LET h == r \div SCALE
        l == r % SCALE
    IN  h * h * SCALE + 2 * h * l + (l * l + SCALE - 1) \div SCALE <= x
RECURSIVE SqrtSearch(_, _, _)
SqrtSearch(x, lo, hi) ==
    IF hi - lo <= 1 THEN lo
    ELSE LET mid == (lo + hi) \div 2
         IN  IF SqLe(mid, x) THEN SqrtSearch(x, mid, hi)
             ELSE SqrtSearch(x, lo, mid)
FSqrt(x) ==
    IF IsNaN(x) \/ x < 0 THEN NaN
    ELSE IF x = PInf THEN PInf
    ELSE SqrtSearch(x, 0, 150 * SCALE)

\* f32::round: to the nearest integer, halves away from zero
FRound(x) ==
    IF IsNaN(x) \/ IsInf(x) THEN x
    ELSE Sgn(x) * ((Abs(x) + SCALE \div 2) \div SCALE) * SCALE
\* f32::max and f32::min: a NaN operand is ignored
FMax(x, y) == IF IsNaN(x) THEN y ELSE IF IsNaN(y) THEN x ELSE IF x > y THEN x ELSE y
FMin(x, y) == IF IsNaN(x) THEN y ELSE IF IsNaN(y) THEN x ELSE IF x < y THEN x ELSE y
\* a clamp without the assertion: max(min) then min(max), never a panic
ClampNeverPanics(min, max) == FALSE
\* f32::clamp panics unless min <= max (so also when a bound is NaN)
ClampPanics(min, max) == ~FLe(min, max)
FClamp(x, min, max) == IF FLt(x, min) THEN min ELSE IF FGt(x, max) THEN max ELSE x
\* `as u8`: truncates, saturates, and takes NaN to 0
AsU8(x) ==
    IF IsNaN(x) \/ x <= 0 THEN 0
    ELSE IF x >= 255 * SCALE THEN 255
    ELSE x \div SCALE

(***************************************************************************)
(* vector_utils.rs                                                         *)
(***************************************************************************)
Min(a, b) == IF a < b THEN a ELSE b
\* the sum of the first n elements of s, added left to right from 0.0
RECURSIVE FSumTo(_, _)
FSumTo(s, n) == IF n = 0 THEN 0 ELSE FAdd(FSumTo(s, n - 1), s[n])
FSum(s) == FSumTo(s, Len(s))

compute_vector_magnitude(vector) ==
    FSqrt(FSum([i \in 1..Len(vector) |-> FMul(vector[i], vector[i])]))

\* a.iter().zip(b.iter()): the shorter length decides
compute_dot_product(a, b) ==
    FSum([i \in 1..Min(Len(a), Len(b)) |-> FMul(a[i], b[i])])

normalize_vector(vector) ==
    LET magnitude == compute_vector_magnitude(vector)
    IN  IF FGt(magnitude, 0)
        THEN [i \in 1..Len(vector) |-> FDiv(vector[i], magnitude)]
        ELSE vector

\* centroid[i] += vector[i] for i below the FIRST vector's length: a shorter
\* vector is indexed out of bounds, a longer one has its tail ignored
compute_centroid(vectors) ==
    IF Len(vectors) = 0 THEN [status |-> "err", error |-> "empty collection", centroid |-> <<>>]
    ELSE LET dimension == Len(vectors[1])
         IN  IF \E v \in 2..Len(vectors) : Len(vectors[v]) < dimension
             THEN [status |-> "panic", error |-> "", centroid |-> <<>>]
             ELSE [status |-> "ok", error |-> "",
                   centroid |-> [i \in 1..dimension |->
                       FDiv(FSum([v \in 1..Len(vectors) |-> vectors[v][i]]),
                            FromInt(Len(vectors)))]]

(***************************************************************************)
(* constants.rs                                                            *)
(***************************************************************************)
QUERY_BITS == 4
INDEX_BITS == 1
FOUR_BIT_SCALE == FDiv(FromInt(1), FromInt(15))
DEFAULT_LAMBDA == Lit(1, 10)
DEFAULT_ITERS == 5
MINIMUM_MSE_GRID ==
    << <<-Lit(798, 1000), Lit(798, 1000)>>,
       <<-Lit(1493, 1000), Lit(1493, 1000)>>,
       <<-Lit(2051, 1000), Lit(2051, 1000)>>,
       <<-Lit(2514, 1000), Lit(2514, 1000)>>,
       <<-Lit(2916, 1000), Lit(2916, 1000)>>,
       <<-Lit(3278, 1000), Lit(3278, 1000)>>,
       <<-Lit(3611, 1000), Lit(3611, 1000)>>,
       <<-Lit(3922, 1000), Lit(3922, 1000)>> >>
\* 1e-12 and 1e-8 lie below the model's resolution: a representable x is
\* less than them exactly when it is less than the smallest positive value
MIN_DETERMINANT == 1
EPSILON == 1
F32_MAX == FMAX
F32_MIN == -FMAX

(***************************************************************************)
(* optimized_scalar_quantizer.rs                                           *)
(***************************************************************************)
\* Option<T>: None is <<>>, Some(v) is <<v>>
None == <<>>
Some(v) == <<v>>
unwrap_or(opt, default) == IF opt = None THEN default ELSE opt[1]

OptimizedScalarQuantizer_new(lambda, iters, similarity_function) ==
    [lambda |-> unwrap_or(lambda, DEFAULT_LAMBDA),
     iters |-> unwrap_or(iters, DEFAULT_ITERS),
     similarity_function |-> unwrap_or(similarity_function, "Euclidean")]

Pow2(bits) == IF bits = 0 THEN 1 ELSE 2 ^ bits

get_initial_interval(bits, std, vec_mean, min, max) ==
    IF bits < 1 \/ bits > 8 THEN [status |-> "err", interval |-> <<0, 0>>]
    ELSE IF ClampPanics(min, max) THEN [status |-> "panic", interval |-> <<0, 0>>]
    ELSE LET grid == MINIMUM_MSE_GRID[bits]
         IN  [status |-> "ok",
              interval |-> <<FClamp(FAdd(FMul(grid[1], std), vec_mean), min, max),
                             FClamp(FAdd(FMul(grid[2], std), vec_mean), min, max)>>]

\* the level k that compute_loss and optimize_intervals assign to xi
Level(xi, a, step_inv) == FRound(FMul(FSub(xi, a), step_inv))

\* the terms xi - (a + step * k) of compute_loss, one for each component
LossDiff(vector, a, b, step, step_inv) ==
    [i \in 1..Len(vector) |->
        FSub(vector[i], FAdd(a, FMul(step, Level(FClamp(vector[i], a, b), a, step_inv))))]
\* the loss from those terms: (1 - lambda) * xe * xe / norm2 + lambda * e
LossFromDiff(self, vector, norm2, diff) ==
    LET xe == FSum([i \in 1..Len(vector) |-> FMul(vector[i], diff[i])])
        e == FSum([i \in 1..Len(vector) |-> FMul(diff[i], diff[i])])
    IN  FAdd(FDiv(FMul(FMul(FSub(FromInt(1), self.lambda), xe), xe), norm2),
             FMul(self.lambda, e))

\* panics in xi.clamp(a, b) when the vector is not empty and a <= b fails
compute_loss(self, vector, interval, points, norm2) ==
    LET a == interval[1]
        b == interval[2]
        step == FDiv(FSub(b, a), FromInt(points - 1))
    IN  IF Len(vector) > 0 /\ ClampPanics(a, b) THEN [status |-> "panic", loss |-> NaN]
        ELSE [status |-> "ok",
              loss |-> LossFromDiff(self, vector, norm2,
                           LossDiff(vector, a, b, step, FDiv(FromInt(1), step)))]

\* the end of one round: the new interval is kept unless its loss is
\* greater than the loss so far
OptimizeCandidate(loss, candidate, new_loss) ==
    IF new_loss.status = "panic" THEN [step |-> "panic"]
    ELSE IF FGt(new_loss.loss, loss) THEN [step |-> "return"]
    ELSE [step |-> "accept", interval |-> candidate, loss |-> new_loss.loss]

\* the convergence test of one round and the loss of the new interval
OptimizeStep(self, interval, vector, norm2, points, loss, a_opt, b_opt) ==
    IF FLt(FAbs(FSub(interval[1], a_opt)), EPSILON)
       /\ FLt(FAbs(FSub(interval[2], b_opt)), EPSILON)
    THEN [step |-> "return"]
    ELSE OptimizeCandidate(loss, <<a_opt, b_opt>>,
             compute_loss(self, vector, <<a_opt, b_opt>>, points, norm2))

\* the determinant of the matrix m0 m1 / m1 m2 and the solution a_opt, b_opt
OptimizeSystem(self, interval, vector, norm2, points, loss, dax, dbx, m0, m1, m2) ==
    LET det == FSub(FMul(m0, m2), FMul(m1, m1))
    IN  IF FLt(FAbs(det), MIN_DETERMINANT) THEN [step |-> "return"]
        ELSE OptimizeStep(self, interval, vector, norm2, points, loss,
                 FDiv(FSub(FMul(m2, dax), FMul(m1, dbx)), det),
                 FDiv(FSub(FMul(m0, dbx), FMul(m1, dax)), det))

\* the 2x2 system of one round, from the sums daa .. dbx of its first loop
OptimizeSolve(self, interval, vector, norm2, points, scale, loss, daa, dab, dbb, dax, dbx) ==
    OptimizeSystem(self, interval, vector, norm2, points, loss, dax, dbx,
        FAdd(FMul(FMul(scale, dax), dax), FMul(self.lambda, daa)),
        FAdd(FMul(FMul(scale, dax), dbx), FMul(self.lambda, dab)),
        FAdd(FMul(FMul(scale, dbx), dbx), FMul(self.lambda, dbb)))

\* the sums of the first loop of one round, from the weights s of the
\* components
OptimizeSums(self, interval, vector, norm2, points, scale, loss, s) ==
    LET n == Len(vector)
        one_s == [i \in 1..n |-> FSub(FromInt(1), s[i])]
    IN  OptimizeSolve(self, interval, vector, norm2, points, scale, loss,
            FSum([i \in 1..n |-> FMul(one_s[i], one_s[i])]),
            FSum([i \in 1..n |-> FMul(one_s[i], s[i])]),
            FSum([i \in 1..n |-> FMul(s[i], s[i])]),
            FSum([i \in 1..n |-> FMul(vector[i], one_s[i])]),
            FSum([i \in 1..n |-> FMul(vector[i], s[i])]))

\* one round of the coordinate descent: the candidate interval, or the
\* reason the loop returns
OptimizeRound(self, interval, vector, norm2, points, scale, loss) ==
    LET a == interval[1]
        b == interval[2]
        step_inv == FDiv(FromInt(points - 1), FSub(b, a))
    IN  IF Len(vector) > 0 /\ ClampPanics(a, b) THEN [step |-> "panic"]
        ELSE OptimizeSums(self, interval, vector, norm2, points, scale, loss,
                 [i \in 1..Len(vector) |->
                     FDiv(Level(FClamp(vector[i], a, b), a, step_inv),
                          FromInt(points - 1))])

\* for _ in 0..self.iters: OptimizeNext continues after the round r
RECURSIVE OptimizeLoop(_, _, _, _, _, _, _, _)
RECURSIVE OptimizeNext(_, _, _, _, _, _, _, _, _)
OptimizeNext(self, interval, vector, norm2, points, scale, loss, left, r) ==
    IF r.step = "panic" THEN [status |-> "panic", interval |-> interval, loss |-> loss]
    ELSE IF r.step = "return" THEN [status |-> "ok", interval |-> interval, loss |-> loss]
    ELSE OptimizeLoop(self, r.interval, vector, norm2, points, scale, r.loss, left - 1)
OptimizeLoop(self, interval, vector, norm2, points, scale, loss, left) ==
    IF left = 0 THEN [status |-> "ok", interval |-> interval, loss |-> loss]
    ELSE OptimizeNext(self, interval, vector, norm2, points, scale, loss, left,
                      OptimizeRound(self, interval, vector, norm2, points, scale, loss))

\* optimize_intervals once the initial loss is known
OptimizeFrom(self, interval, vector, norm2, points, initial_loss) ==
    LET scale == FDiv(FSub(FromInt(1), self.lambda), norm2)
    IN  IF initial_loss.status = "panic"
        THEN [status |-> "panic", interval |-> interval, loss |-> NaN]
        ELSE IF ~is_finite(scale)
        THEN [status |-> "ok", interval |-> interval, loss |-> initial_loss.loss]
        ELSE OptimizeLoop(self, interval, vector, norm2, points, scale,
                          initial_loss.loss, self.iters)

optimize_intervals(self, interval, vector, norm2, points) ==
    OptimizeFrom(self, interval, vector, norm2, points,
                 compute_loss(self, vector, interval, points, norm2))

RECURSIVE MinTo(_, _)
MinTo(w, n) ==
    IF n = 0 THEN F32_MAX
    ELSE LET m == MinTo(w, n - 1) IN IF FLt(w[n], m) THEN w[n] ELSE m
RECURSIVE MaxTo(_, _)
MaxTo(w, n) ==
    IF n = 0 THEN F32_MIN
    ELSE LET m == MaxTo(w, n - 1) IN IF FGt(w[n], m) THEN w[n] ELSE m

QuantizationResult(lower, upper, additional, component_sum) ==
    [lower_interval |-> lower, upper_interval |-> upper,
     additional_correction |-> additional, quantized_component_sum |-> component_sum]
NoQuantizationResult == QuantizationResult(0, 0, 0, 0)

\* what scalar_quantize returns and what it leaves in `destination`
QuantizeOutcome(status, error, destination, result) ==
    [status |-> status, error |-> error, destination |-> destination, result |-> result]

\* step 6 of scalar_quantize: the quantized value and the term added to
\* quantized_component_sum for one clamped component
QuantizedValue(clamped, a, b, bits, step_inv) ==
    IF bits = 1
    THEN IF FGe(clamped, FDiv(FAdd(a, b), FromInt(2))) THEN 1 ELSE 0
    ELSE AsU8(FMin(FRound(FMul(FSub(clamped, a), step_inv)), FromInt(Pow2(bits) - 1)))
ComponentSumTerm(clamped, a, b, bits, step_inv) ==
    IF bits = 1
    THEN FromInt(QuantizedValue(clamped, a, b, bits, step_inv))
    ELSE FRound(FMul(FSub(clamped, a), step_inv))

\* QuantizeWithInterval that takes the number of points for the number of
\* steps
QuantizeWithOneStepTooMany(self, working_vector, centroid_dot, destination, bits, norm2, optimized) ==
    LET n == Len(working_vector)
        a == optimized.interval[1]
        b == optimized.interval[2]
        n_steps == Pow2(bits)
        step == IF n_steps > 0 THEN FDiv(FSub(b, a), FromInt(n_steps)) ELSE 0
        step_inv == IF FGt(step, 0) THEN FDiv(FromInt(1), step) ELSE 0
        clamped == [i \in 1..n |-> FClamp(working_vector[i], a, b)]
    IN  IF optimized.status = "panic" \/ (n > 0 /\ ClampPanics(a, b))
        THEN QuantizeOutcome("panic", "", destination, NoQuantizationResult)
        ELSE QuantizeOutcome("ok", "",
                 [i \in 1..n |->
                     IF bits = 1 THEN QuantizedValue(clamped[i], a, b, bits, step_inv)
                     ELSE AsU8(FMin(FRound(FMul(FSub(clamped[i], a), step_inv)),
                                    FromInt(n_steps)))],
                 QuantizationResult(a, b,
                     IF self.similarity_function = "Euclidean" THEN norm2 ELSE centroid_dot,
                     FSum([i \in 1..n |-> ComponentSumTerm(clamped[i], a, b, bits, step_inv)])))

\* steps 5 and 6 of scalar_quantize: quantize with the optimized interval
QuantizeWithInterval(self, working_vector, centroid_dot, destination, bits, norm2, optimized) ==
    LET n == Len(working_vector)
        a == optimized.interval[1]
        b == optimized.interval[2]
        n_steps == Pow2(bits) - 1
        step == IF n_steps > 0 THEN FDiv(FSub(b, a), FromInt(n_steps)) ELSE 0
        step_inv == IF FGt(step, 0) THEN FDiv(FromInt(1), step) ELSE 0
        clamped == [i \in 1..n |-> FClamp(working_vector[i], a, b)]
    IN  IF optimized.status = "panic" \/ (n > 0 /\ ClampPanics(a, b))
        THEN QuantizeOutcome("panic", "", destination, NoQuantizationResult)
        ELSE QuantizeOutcome("ok", "",
                 [i \in 1..n |-> QuantizedValue(clamped[i], a, b, bits, step_inv)],
                 QuantizationResult(a, b,
                     IF self.similarity_function = "Euclidean" THEN norm2 ELSE centroid_dot,
                     FSum([i \in 1..n |-> ComponentSumTerm(clamped[i], a, b, bits, step_inv)])))

\* step 4 of scalar_quantize: optimize the initial interval
QuantizeFromInitial(self, working_vector, centroid_dot, destination, bits, norm2, initial) ==
    IF initial.status # "ok"
    THEN QuantizeOutcome(initial.status, "", destination, NoQuantizationResult)
    ELSE QuantizeWithInterval(self, working_vector, centroid_dot, destination, bits, norm2,
             optimize_intervals(self, initial.interval, working_vector, norm2, Pow2(bits)))

\* steps 2 and 3 of scalar_quantize: the statistics of the centred vector
\* and the initial interval
InitialInterval(working_vector, bits) ==
    LET n == Len(working_vector)
        min == MinTo(working_vector, n)
        max == MaxTo(working_vector, n)
        sum == FSum(working_vector)
        vec_mean == FDiv(sum, FromInt(n))
        variance_sum == FSum([i \in 1..n |->
                            FMul(FSub(working_vector[i], vec_mean),
                                 FSub(working_vector[i], vec_mean))])
        vec_std == FSqrt(FDiv(variance_sum, FromInt(n)))
    IN  get_initial_interval(bits, vec_std, vec_mean, min, max)
\* norm2 = sum_sq, the squared L2 norm of the centred vector
Norm2(working_vector) ==
    FSum([i \in 1..Len(working_vector) |-> FMul(working_vector[i], working_vector[i])])
QuantizeCentered(self, working_vector, centroid_dot, destination, bits) ==
    QuantizeFromInitial(self, working_vector, centroid_dot, destination, bits,
                        Norm2(working_vector), InitialInterval(working_vector, bits))

\* scalar_quantize that zeroes the destination before it validates
scalar_quantize_clearing_destination(self, vector, destination, bits, centroid) ==
    IF Len(vector) # Len(centroid)
    THEN QuantizeOutcome("err", "vector and centroid dimensions differ",
                         [i \in 1..Len(destination) |-> 0], NoQuantizationResult)
    ELSE IF Len(destination) # Len(vector)
    THEN QuantizeOutcome("err", "destination length differs from vector length",
                         [i \in 1..Len(destination) |-> 0], NoQuantizationResult)
    ELSE IF bits < 1 \/ bits > 8
    THEN QuantizeOutcome("err", "bits must be in 1..8", [i \in 1..Len(destination) |-> 0],
                         NoQuantizationResult)
    ELSE QuantizeCentered(self,
             [i \in 1..Len(vector) |-> FSub(vector[i], centroid[i])],
             IF self.similarity_function # "Euclidean"
             THEN compute_dot_product(vector, centroid) ELSE 0,
             destination, bits)

scalar_quantize(self, vector, destination, bits, centroid) ==
    IF Len(vector) # Len(centroid)
    THEN QuantizeOutcome("err", "vector and centroid dimensions differ",
                         destination, NoQuantizationResult)
    ELSE IF Len(destination) # Len(vector)
    THEN QuantizeOutcome("err", "destination length differs from vector length",
                         destination, NoQuantizationResult)
    ELSE IF bits < 1 \/ bits > 8
    THEN QuantizeOutcome("err", "bits must be in 1..8", destination, NoQuantizationResult)
    ELSE QuantizeCentered(self,
             [i \in 1..Len(vector) |-> FSub(vector[i], centroid[i])],
             IF self.similarity_function # "Euclidean"
             THEN compute_dot_product(vector, centroid) ELSE 0,
             destination, bits)

\* PackByte that puts the first component of a group in bit 0
RECURSIVE PackByteLsbFirst(_, _, _)
PackByteLsbFirst(vector, i, j) ==
    IF j < 0 \/ i > Len(vector) THEN 0
    ELSE (vector[i] % 2) * 2 ^ (7 - j) + PackByteLsbFirst(vector, i + 1, j - 1)

\* the byte that packs the bits of vector from position i on, MSB first
RECURSIVE PackByte(_, _, _)
PackByte(vector, i, j) ==
    IF j < 0 \/ i > Len(vector) THEN 0
    ELSE (vector[i] % 2) * 2 ^ j + PackByte(vector, i + 1, j - 1)

\* PackFrom that masks every value with 1 instead of rejecting the values
\* other than 0 and 1
RECURSIVE PackFromUnvalidated(_, _, _)
PackFromUnvalidated(vector, packed, g) ==
    LET first == 8 * (g - 1) + 1
    IN  IF first > Len(vector) THEN [status |-> "ok", error |-> "", packed |-> packed]
        ELSE IF g > Len(packed)
        THEN [status |-> "err", error |-> "packed array too short", packed |-> packed]
        ELSE PackFromUnvalidated(vector,
                 [packed EXCEPT ![g] = PackByte(vector, first, 7)], g + 1)

\* pack_as_binary(vector, packed): Err at the first group that holds a value
\* other than 0 and 1 or that has no byte in `packed`; the groups before it
\* are written
RECURSIVE PackFrom(_, _, _)
PackFrom(vector, packed, g) ==
    LET first == 8 * (g - 1) + 1
        last == Min(8 * g, Len(vector))
    IN  IF first > Len(vector) THEN [status |-> "ok", error |-> "", packed |-> packed]
        ELSE IF \E i \in first..last : vector[i] \notin {0, 1}
        THEN [status |-> "err", error |-> "1-bit values must be 0 or 1", packed |-> packed]
        ELSE IF g > Len(packed)
        THEN [status |-> "err", error |-> "packed array too short", packed |-> packed]
        ELSE PackFrom(vector, [packed EXCEPT ![g] = PackByte(vector, first, 7)], g + 1)
pack_as_binary(vector, packed) == PackFrom(vector, packed, 1)

(***************************************************************************)
(* bitwise_dot_product.rs                                                  *)
(***************************************************************************)
RECURSIVE ISumTo(_, _)
ISumTo(s, n) == IF n = 0 THEN 0 ELSE ISumTo(s, n - 1) + s[n]
ISum(s) == ISumTo(s, Len(s))

compute_quantized_dot_product(q, d) ==
    IF Len(q) # Len(d) THEN [status |-> "err", error |-> "vector lengths differ", value |-> 0]
    ELSE [status |-> "ok", error |-> "",
          value |-> ISum([i \in 1..Len(q) |-> q[i] * d[i]])]
compute_int4_bit_dot_product(q, d) == compute_quantized_dot_product(q, d)
compute_int1_bit_dot_product(q, d) == compute_quantized_dot_product(q, d)

\* bit j (0 = least significant) of byte b, and (a ^ b).count_ones()
Bit(b, j) == (b \div 2 ^ j) % 2
XorCountOnes(a, b) == Cardinality({j \in 0..7 : Bit(a, j) # Bit(b, j)})

compute_packed_bit_dot_product(q, d) ==
    IF Len(q) # Len(d) THEN [status |-> "err", error |-> "vector lengths differ", value |-> 0]
    ELSE [status |-> "ok", error |-> "",
          value |-> Len(q) * 8 - 2 * ISum([i \in 1..Len(q) |-> XorCountOnes(q[i], d[i])])]

(***************************************************************************)
(* batch_dot_product.rs.  Offsets and ordinals are 0-based as in the code; *)
(* element i of a Rust slice is element i + 1 of the sequence.             *)
(***************************************************************************)
\* create_direct_packed_buffer that fills the slots from the last index to
\* the first
create_direct_packed_buffer_reversed(vectors, indices, packed_size) ==
    IF \E i \in 1..Len(indices) : indices[i] >= Len(vectors)
    THEN [status |-> "panic", buffer |-> <<>>]
    ELSE [status |-> "ok",
          buffer |-> [p \in 1..(Len(indices) * packed_size) |->
              LET i == (p - 1) \div packed_size
                  j == (p - 1) % packed_size
                  vector == vectors[indices[Len(indices) - i] + 1]
              IN  IF j < Min(packed_size, Len(vector)) THEN vector[j + 1] ELSE 0]]

\* vectors[index] panics for an index that is not below vectors.len()
create_direct_packed_buffer(vectors, indices, packed_size) ==
    IF \E i \in 1..Len(indices) : indices[i] >= Len(vectors)
    THEN [status |-> "panic", buffer |-> <<>>]
    ELSE [status |-> "ok",
          buffer |-> [p \in 1..(Len(indices) * packed_size) |->
              LET i == (p - 1) \div packed_size
                  j == (p - 1) % packed_size
                  vector == vectors[indices[i + 1] + 1]
              IN  IF j < Min(packed_size, Len(vector)) THEN vector[j + 1] ELSE 0]]

\* FourBitDotProduct that reads the bits of the last, partial byte from the
\* least significant end
FourBitRemainderLsbFirst(query_vector, continuous_buffer, target_offset, dimension) ==
    LET main_packed_dimension == dimension \div 8
        remainder_start_dim == main_packed_dimension * 8
    IN  ISum([j \in 1..main_packed_dimension |->
                ISum([u \in 1..8 |->
                    query_vector[(j - 1) * 8 + u]
                        * Bit(continuous_buffer[target_offset + j], 8 - u)])])
        + ISum([r \in 1..(dimension - remainder_start_dim) |->
                query_vector[remainder_start_dim + r]
                    * Bit(continuous_buffer[target_offset + main_packed_dimension + 1],
                          (remainder_start_dim + r - 1) % 8)])

\* one target: the 8-way unrolled loop over the full bytes, then the
\* remaining bits of the last byte
FourBitDotProduct(query_vector, continuous_buffer, target_offset, dimension) ==
    LET main_packed_dimension == dimension \div 8
        remainder_start_dim == main_packed_dimension * 8
    IN  ISum([j \in 1..main_packed_dimension |->
                ISum([u \in 1..8 |->
                    query_vector[(j - 1) * 8 + u]
                        * Bit(continuous_buffer[target_offset + j], 8 - u)])])
        + ISum([r \in 1..(dimension - remainder_start_dim) |->
                query_vector[remainder_start_dim + r]
                    * Bit(continuous_buffer[target_offset + main_packed_dimension + 1],
                          7 - ((remainder_start_dim + r - 1) % 8))])

compute_batch_four_bit_dot_product_direct_packed(query_vector, continuous_buffer, num_vectors, dimension) ==
    LET packed_dimension == (dimension + 7) \div 8
    IN  IF num_vectors > 0
           /\ (Len(continuous_buffer) < num_vectors * packed_dimension
               \/ Len(query_vector) < dimension)
        THEN [status |-> "panic", results |-> <<>>]
        ELSE [status |-> "ok",
              results |-> [i \in 1..num_vectors |->
                  FourBitDotProduct(query_vector, continuous_buffer,
                                    (i - 1) * packed_dimension, dimension)]]

compute_batch_one_bit_dot_product_direct_packed(query_vector, continuous_buffer, num_vectors, packed_dimension) ==
    IF num_vectors > 0
       /\ (Len(continuous_buffer) < num_vectors * packed_dimension
           \/ Len(query_vector) < packed_dimension)
    THEN [status |-> "panic", results |-> <<>>]
    ELSE [status |-> "ok",
          results |-> [i \in 1..num_vectors |->
              ISum([j \in 1..packed_dimension |->
                  8 - 2 * XorCountOnes(query_vector[j],
                                       continuous_buffer[(i - 1) * packed_dimension + j])])]]

(***************************************************************************)
(* binary_quantized_scorer.rs                                              *)
(***************************************************************************)
BinaryQuantizedScorer_new(similarity_function) ==
    [similarity_function |-> similarity_function]

scale_max_inner_product_score(score) ==
    IF FLt(score, 0) THEN FDiv(FromInt(1), FSub(FromInt(1), score))
    ELSE FAdd(score, FromInt(1))

\* ax*ay*dimension + ay*lx*x1 + ax*ly*y1 + lx*ly*qc_dist
RawScore(ax, lx, x1, ay, ly, y1, qc_dist, dimension) ==
    FAdd(FAdd(FAdd(FMul(FMul(ax, ay), FromInt(dimension)),
                   FMul(FMul(ay, lx), x1)),
              FMul(FMul(ax, ly), y1)),
         FMul(FMul(lx, ly), FromInt(qc_dist)))

\* the similarity of the 1-bit kernel from the raw score of the pair
OneBitSimilarity(self, query_corrections, index_corrections, centroid_dp, score) ==
    LET adjusted == FAdd(score, FSub(FAdd(query_corrections.additional_correction,
                                          index_corrections.additional_correction),
                                     centroid_dp))
    IN  IF self.similarity_function = "Euclidean"
        THEN FMax(FDiv(FromInt(1),
                       FAdd(FromInt(1),
                            FSub(FAdd(query_corrections.additional_correction,
                                      index_corrections.additional_correction),
                                 FMul(FromInt(2), score)))), 0)
        ELSE IF self.similarity_function = "Cosine"
        THEN FMax(FDiv(FAdd(FromInt(1), adjusted), FromInt(2)), 0)
        ELSE scale_max_inner_product_score(adjusted)

compute_one_bit_similarity_score(self, qc_dist, query_corrections, index_corrections, dimension, centroid_dp) ==
    LET x1 == index_corrections.quantized_component_sum
        ax == index_corrections.lower_interval
        lx == FSub(index_corrections.upper_interval, ax)
        ay == query_corrections.lower_interval
        ly == FSub(query_corrections.upper_interval, ay)
        y1 == query_corrections.quantized_component_sum
    IN  OneBitSimilarity(self, query_corrections, index_corrections, centroid_dp,
                         RawScore(ax, lx, x1, ay, ly, y1, qc_dist, dimension))

\* the similarity of the 4-bit kernel from the raw score of the pair
FourBitSimilarity(self, query_corrections, index_corrections, centroid_dp, score) ==
    LET adjusted_score == FSub(FAdd(FAdd(score, query_corrections.additional_correction),
                                    index_corrections.additional_correction),
                               centroid_dp)
    IN  IF self.similarity_function = "Euclidean"
        THEN FMax(FDiv(FromInt(1),
                       FAdd(FromInt(1),
                            FSub(FAdd(query_corrections.additional_correction,
                                      index_corrections.additional_correction),
                                 FMul(FromInt(2), score)))), 0)
        ELSE IF self.similarity_function = "MaximumInnerProduct"
        THEN scale_max_inner_product_score(adjusted_score)
        ELSE FMax(FDiv(FAdd(FromInt(1), adjusted_score), FromInt(2)), 0)

compute_four_bit_similarity_score(self, qc_dist, query_corrections, index_corrections, dimension, centroid_dp) ==
    LET x1 == index_corrections.quantized_component_sum
        ax == index_corrections.lower_interval
        lx == FSub(index_corrections.upper_interval, ax)
        ay == query_corrections.lower_interval
        ly == FMul(FSub(query_corrections.upper_interval, ay), FOUR_BIT_SCALE)
        y1 == query_corrections.quantized_component_sum
    IN  FourBitSimilarity(self, query_corrections, index_corrections, centroid_dp,
                          RawScore(ax, lx, x1, ay, ly, y1, qc_dist, dimension))

\* the message of the Err that compute_quantized_score returns
ERR_UNSUPPORTED_QUERY_BITS == "unsupported query bits"
QuantizedScoreResult(score, bit_dot_product, query_corrections, index_corrections) ==
    [score |-> score, bit_dot_product |-> bit_dot_product,
     query_corrections |-> query_corrections, index_corrections |-> index_corrections]

\* Result<QuantizedScoreResult, String>, or a panic
ScoreOutcome(status, error, result) == [status |-> status, error |-> error, result |-> result]
NoScoreResult == QuantizedScoreResult(0, 0, NoQuantizationResult, NoQuantizationResult)

compute_one_bit_quantized_score(self, quantized_query, query_corrections, quantized_index, index_corrections, dimension, centroid_dp) ==
    LET qc_dist == compute_int1_bit_dot_product(quantized_query, quantized_index)
    IN  IF qc_dist.status = "err" THEN ScoreOutcome("err", qc_dist.error, NoScoreResult)
        ELSE ScoreOutcome("ok", "",
                 QuantizedScoreResult(
                     compute_one_bit_similarity_score(self, qc_dist.value, query_corrections,
                                                      index_corrections, dimension, centroid_dp),
                     qc_dist.value, query_corrections, index_corrections))

compute_four_bit_quantized_score(self, quantized_query, query_corrections, quantized_index, index_corrections, dimension, centroid_dp) ==
    LET qc_dist == compute_int4_bit_dot_product(quantized_query, quantized_index)
    IN  IF qc_dist.status = "err" THEN ScoreOutcome("err", qc_dist.error, NoScoreResult)
        ELSE ScoreOutcome("ok", "",
                 QuantizedScoreResult(
                     compute_four_bit_similarity_score(self, qc_dist.value, query_corrections,
                                                       index_corrections, dimension, centroid_dp),
                     qc_dist.value, query_corrections, index_corrections))

compute_quantized_score(self, quantized_query, query_corrections, quantized_index, index_corrections, query_bits, dimension, centroid_dp) ==
    IF query_bits = 1
    THEN compute_one_bit_quantized_score(self, quantized_query, query_corrections,
                                         quantized_index, index_corrections, dimension,
                                         centroid_dp)
    ELSE IF query_bits = 4
    THEN compute_four_bit_quantized_score(self, quantized_query, query_corrections,
                                          quantized_index, index_corrections, dimension,
                                          centroid_dp)
    ELSE ScoreOutcome("err", ERR_UNSUPPORTED_QUERY_BITS, NoScoreResult)

\* Result<Vec<QuantizedScoreResult>, String>, or a panic
BatchOutcome(status, error, results) == [status |-> status, error |-> error, results |-> results]

\* the fallback loop `for &target_ord in target_ords`, from entry i on;
\* FallbackScored continues with what compute_quantized_score returned
RECURSIVE FallbackFrom(_, _, _, _, _, _, _, _, _, _, _)
RECURSIVE FallbackScored(_, _, _, _, _, _, _, _, _, _, _, _)
FallbackScored(self, quantized_query, query_corrections, target_vectors, target_corrections, target_ords, query_bits, dimension, centroid_dp, i, results, result) ==
    IF result.status = "err" THEN BatchOutcome("err", result.error, <<>>)
    ELSE FallbackFrom(self, quantized_query, query_corrections, target_vectors,
                      target_corrections, target_ords, query_bits, dimension,
                      centroid_dp, i + 1, Append(results, result.result))
FallbackFrom(self, quantized_query, query_corrections, target_vectors, target_corrections, target_ords, query_bits, dimension, centroid_dp, i, results) ==
    IF i > Len(target_ords) THEN BatchOutcome("ok", "", results)
    ELSE LET target_ord == target_ords[i]
         IN  IF target_ord >= Len(target_vectors) \/ target_ord >= Len(target_corrections)
             THEN BatchOutcome("panic", "", <<>>)
             ELSE FallbackScored(self, quantized_query, query_corrections, target_vectors,
                      target_corrections, target_ords, query_bits, dimension, centroid_dp,
                      i, results,
                      compute_quantized_score(self, quantized_query, query_corrections,
                          target_vectors[target_ord + 1],
                          target_corrections[target_ord + 1], query_bits, dimension,
                          centroid_dp))

\* the results of the 4-bit branch from the distances of its kernel
FourBitScores(self, query_corrections, target_corrections, target_ords, dimension, centroid_dp, buffer_status, qc_dists) ==
    IF buffer_status = "panic" \/ qc_dists.status = "panic"
       \/ Len(target_corrections) < Len(target_ords)
    THEN BatchOutcome("panic", "", <<>>)
    ELSE BatchOutcome("ok", "",
             [i \in 1..Len(target_ords) |->
                 QuantizedScoreResult(
                     compute_four_bit_similarity_score(self, qc_dists.results[i],
                         query_corrections, target_corrections[i], dimension,
                         centroid_dp),
                     qc_dists.results[i], query_corrections, target_corrections[i])])

\* the results of the 1-bit branch from the distances of its kernel
OneBitScores(self, query_corrections, target_corrections, target_ords, dimension, centroid_dp, packed_status, buffer_status, qc_dists) ==
    IF packed_status = "err"
    THEN BatchOutcome("err", "query packing failed", <<>>)
    ELSE IF buffer_status = "panic" \/ qc_dists.status = "panic"
            \/ Len(target_corrections) < Len(target_ords)
    THEN BatchOutcome("panic", "", <<>>)
    ELSE BatchOutcome("ok", "",
             [i \in 1..Len(target_ords) |->
                 QuantizedScoreResult(
                     compute_one_bit_similarity_score(self, qc_dists.results[i],
                         query_corrections, target_corrections[i], dimension,
                         centroid_dp),
                     qc_dists.results[i], query_corrections, target_corrections[i])])

compute_batch_quantized_scores(self, quantized_query, query_corrections, target_vectors, target_corrections, target_ords, query_bits, dimension, centroid_dp) ==
    IF query_bits = 4
    THEN LET packed_vector_size == (dimension + 7) \div 8
             direct_packed_buffer == create_direct_packed_buffer(target_vectors, target_ords,
                                                                 packed_vector_size)
         IN  FourBitScores(self, query_corrections, target_corrections, target_ords,
                 dimension, centroid_dp, direct_packed_buffer.status,
                 compute_batch_four_bit_dot_product_direct_packed(
                     quantized_query, direct_packed_buffer.buffer,
                     Len(target_ords), dimension))
    ELSE IF query_bits = 1
    THEN LET packed_query_size == (dimension + 7) \div 8
             packed_query == pack_as_binary(quantized_query,
                                            [j \in 1..packed_query_size |-> 0])
             direct_packed_buffer == create_direct_packed_buffer(target_vectors, target_ords,
                                                                 packed_query_size)
         IN  OneBitScores(self, query_corrections, target_corrections, target_ords,
                 dimension, centroid_dp, packed_query.status, direct_packed_buffer.status,
                 compute_batch_one_bit_dot_product_direct_packed(
                     packed_query.packed, direct_packed_buffer.buffer,
                     Len(target_ords), packed_query_size))
    ELSE FallbackFrom(self, quantized_query, query_corrections, target_vectors,
                      target_corrections, target_ords, query_bits, dimension, centroid_dp,
                      1, <<>>)

(***************************************************************************)
(* quantized_index.rs                                                      *)
(***************************************************************************)
QuantizedVectorValuesImpl_new(vectors, unpacked_vectors, corrections, centroid) ==
    [vectors |-> vectors, unpacked_vectors |-> unpacked_vectors,
     corrections |-> corrections, centroid |-> centroid, dimension |-> Len(centroid)]
NoValues == QuantizedVectorValuesImpl_new(<<>>, <<>>, <<>>, <<>>)

get_centroid_dp(values, query_vector) ==
    IF query_vector # None THEN compute_dot_product(query_vector[1], values.centroid)
    ELSE compute_dot_product(values.centroid, values.centroid)

QuantizedIndexConfig(query_bits, index_bits, similarity_function, lambda, iters) ==
    [query_bits |-> query_bits, index_bits |-> index_bits,
     similarity_function |-> similarity_function, lambda |-> lambda, iters |-> iters]
DefaultConfig == QuantizedIndexConfig(QUERY_BITS, INDEX_BITS, "Cosine", None, None)

\* QuantizedIndex::new that validates query_bits only
new_validating_query_bits_only(config) ==
    IF config.query_bits < 1 \/ config.query_bits > 8
    THEN [status |-> "err", error |-> "query_bits must be in 1..8", instance |-> None]
    ELSE [status |-> "ok", error |-> "",
          instance |-> Some([config |-> config,
                             quantizer |-> OptimizedScalarQuantizer_new(
                                 config.lambda, config.iters,
                                 Some(config.similarity_function)),
                             scorer |-> BinaryQuantizedScorer_new(config.similarity_function),
                             quantized_vectors |-> None])]

\* Result<QuantizedIndex, String>: the instance is Some(..) on Ok
QuantizedIndex_new(config) ==
    IF config.query_bits < 1 \/ config.query_bits > 8
    THEN [status |-> "err", error |-> "query_bits must be in 1..8", instance |-> None]
    ELSE IF config.index_bits < 1 \/ config.index_bits > 8
    THEN [status |-> "err", error |-> "index_bits must be in 1..8", instance |-> None]
    ELSE [status |-> "ok", error |-> "",
          instance |-> Some([config |-> config,
                             quantizer |-> OptimizedScalarQuantizer_new(
                                 config.lambda, config.iters,
                                 Some(config.similarity_function)),
                             scorer |-> BinaryQuantizedScorer_new(config.similarity_function),
                             quantized_vectors |-> None])]

\* the error messages of build_index and search_nearest_neighbors
ERR_EMPTY_COLLECTION == "vector collection must not be empty"
ERR_VECTOR_DIMENSION == "vector dimension does not match the first vector"
ERR_INVALID_VALUE == "vector contains an invalid value"
ERR_PACKING == "binary packing failed"
ERR_NOT_BUILT == "index not built, call build_index first"
ERR_EMPTY_QUERY == "query vector must not be empty"
ERR_QUERY_DIMENSION == "query vector dimension does not match the index dimension"

Zeros(n) == [i \in 1..n |-> 0]

\* one pass of the loop `for vector in &processed_vectors`, after
\* scalar_quantize returned q: the stored (packed or unpacked) form, the
\* quantized vector and its correction
StoreEntry(self, dimension, q) ==
    LET packed == pack_as_binary(q.destination, Zeros((dimension + 7) \div 8))
    IN  IF q.status # "ok"
        THEN [status |-> q.status, error |-> q.error, stored |-> <<>>,
              unpacked |-> <<>>, correction |-> NoQuantizationResult]
        ELSE IF self.config.index_bits = 1 /\ packed.status # "ok"
        THEN [status |-> "err", error |-> ERR_PACKING, stored |-> <<>>,
              unpacked |-> <<>>, correction |-> NoQuantizationResult]
        ELSE [status |-> "ok", error |-> "",
              stored |-> IF self.config.index_bits = 1 THEN packed.packed ELSE q.destination,
              unpacked |-> q.destination, correction |-> q.result]

QuantizeEntry(self, vector, dimension, centroid) ==
    StoreEntry(self, dimension,
               scalar_quantize(self.quantizer, vector, Zeros(dimension),
                               self.config.index_bits, centroid))

\* BuildFromEntries that files the correction records in reverse order
BuildFromEntriesCorrectionsReversed(centroid, entries) ==
    LET failed == {v \in 1..Len(entries) : entries[v].status # "ok"}
        first == CHOOSE v \in failed : \A w \in failed : v <= w
    IN  IF failed # {}
        THEN [status |-> entries[first].status, error |-> entries[first].error,
              values |-> NoValues]
        ELSE [status |-> "ok", error |-> "",
              values |-> QuantizedVectorValuesImpl_new(
                  [v \in 1..Len(entries) |-> entries[v].stored],
                  [v \in 1..Len(entries) |-> entries[v].unpacked],
                  [v \in 1..Len(entries) |-> entries[Len(entries) + 1 - v].correction],
                  centroid)]

\* the end of the loop over the vectors: the `?` of the first entry that
\* failed, or the QuantizedVectorValuesImpl (lines 242-279)
BuildFromEntries(centroid, entries) ==
    LET failed == {v \in 1..Len(entries) : entries[v].status # "ok"}
        first == CHOOSE v \in failed : \A w \in failed : v <= w
    IN  IF failed # {}
        THEN [status |-> entries[first].status, error |-> entries[first].error,
              values |-> NoValues]
        ELSE [status |-> "ok", error |-> "",
              values |-> QuantizedVectorValuesImpl_new(
                  [v \in 1..Len(entries) |-> entries[v].stored],
                  [v \in 1..Len(entries) |-> entries[v].unpacked],
                  [v \in 1..Len(entries) |-> entries[v].correction],
                  centroid)]

\* BuildFromCentroid that quantizes vector v against the mean of the vectors
\* up to v, before the centroid of the whole collection is known
BuildFromRunningCentroid(self, processed_vectors, dimension, centroid) ==
    IF centroid.status # "ok"
    THEN [status |-> centroid.status, error |-> centroid.error, values |-> NoValues]
    ELSE BuildFromEntries(centroid.centroid,
             [v \in 1..Len(processed_vectors) |->
                 QuantizeEntry(self, processed_vectors[v], dimension,
                     compute_centroid(SubSeq(processed_vectors, 1, v)).centroid)])

\* lines 235-279, with the centroid compute_centroid returned
BuildFromCentroid(self, processed_vectors, dimension, centroid) ==
    IF centroid.status # "ok"
    THEN [status |-> centroid.status, error |-> centroid.error, values |-> NoValues]
    ELSE BuildFromEntries(centroid.centroid,
             [v \in 1..Len(processed_vectors) |->
                 QuantizeEntry(self, processed_vectors[v], dimension, centroid.centroid)])

\* BuildFromProcessed without the is_finite check of lines 223-232
BuildWithoutFiniteCheck(self, processed_vectors) ==
    IF \E v \in 1..Len(processed_vectors) :
           Len(processed_vectors[v]) # Len(processed_vectors[1])
    THEN [status |-> "err", error |-> ERR_VECTOR_DIMENSION, values |-> NoValues]
    ELSE BuildFromCentroid(self, processed_vectors, Len(processed_vectors[1]),
                           compute_centroid(processed_vectors))

\* lines 210-279, on the vectors as normalized for Cosine
BuildFromProcessed(self, processed_vectors) ==
    LET dimension == Len(processed_vectors[1])
    IN  IF \E v \in 1..Len(processed_vectors) : Len(processed_vectors[v]) # dimension
        THEN [status |-> "err", error |-> ERR_VECTOR_DIMENSION, values |-> NoValues]
        ELSE IF \E v \in 1..Len(processed_vectors) :
                    \E j \in 1..dimension : ~is_finite(processed_vectors[v][j])
        THEN [status |-> "err", error |-> ERR_INVALID_VALUE, values |-> NoValues]
        ELSE BuildFromCentroid(self, processed_vectors, dimension,
                               compute_centroid(processed_vectors))

\* build_index up to the construction of the QuantizedVectorValuesImpl
\* (lines 192-279): everything it computes before it assigns to self
BuildValues(self, vectors) ==
    IF Len(vectors) = 0
    THEN [status |-> "err", error |-> ERR_EMPTY_COLLECTION, values |-> NoValues]
    ELSE BuildFromProcessed(self,
             IF self.config.similarity_function = "Cosine"
             THEN [v \in 1..Len(vectors) |-> normalize_vector(vectors[v])]
             ELSE vectors)

quantize_query_vector(self, query_vector, centroid) ==
    LET processed_query_vector ==
            IF self.config.similarity_function = "Cosine"
            THEN normalize_vector(query_vector) ELSE query_vector
    IN  scalar_quantize(self.quantizer, processed_query_vector,
                        Zeros(Len(processed_query_vector)), self.config.query_bits, centroid)

\* line 401: the centroid_dp that search_nearest_neighbors passes to the
\* scorer, from the query_vector it was called with
query_centroid_dp(self, query_vector) ==
    get_centroid_dp(self.quantized_vectors[1], Some(query_vector))

batch_size == 1000

\* the loop over the batches, from batch_start on: all_results, or the
\* error or panic of the first batch that fails.  ScoreBatchDone is the end
\* of one pass, with what compute_batch_quantized_scores returned.
RECURSIVE ScoreBatches(_, _, _, _, _, _)
RECURSIVE ScoreBatchDone(_, _, _, _, _, _, _)
ScoreBatchDone(self, query_vector, quantized_query, query_corrections, batch_start, all_results, batch_results) ==
    IF batch_results.status # "ok"
    THEN [status |-> batch_results.status, error |-> batch_results.error,
          all_results |-> <<>>]
    ELSE ScoreBatches(self, query_vector, quantized_query, query_corrections,
                      batch_start + batch_size,
                      all_results \o [i \in 1..Len(batch_results.results) |->
                          <<batch_start + i - 1, batch_results.results[i].score>>])
ScoreBatches(self, query_vector, quantized_query, query_corrections, batch_start, all_results) ==
    LET values == self.quantized_vectors[1]
        vector_count == Len(values.vectors)
        batch_end == Min(batch_start + batch_size, vector_count)
        batch_indices == [i \in 1..(batch_end - batch_start) |-> batch_start + i - 1]
        batch_vectors == [i \in 1..Len(batch_indices) |->
                             IF self.config.index_bits = 1
                             THEN values.vectors[batch_indices[i] + 1]
                             ELSE values.unpacked_vectors[batch_indices[i] + 1]]
        batch_corrections == [i \in 1..Len(batch_indices) |->
                                 values.corrections[batch_indices[i] + 1]]
    IN  IF batch_start >= vector_count
        THEN [status |-> "ok", error |-> "", all_results |-> all_results]
        ELSE ScoreBatchDone(self, query_vector, quantized_query, query_corrections,
                 batch_start, all_results,
                 compute_batch_quantized_scores(self.scorer, quantized_query,
                     query_corrections, batch_vectors, batch_corrections,
                     batch_indices, self.config.query_bits, values.dimension,
                     query_centroid_dp(self, query_vector)))

\* lines 366-408, with what quantize_query_vector returned
ScoreQuantized(self, query_vector, q) ==
    IF q.status # "ok"
    THEN [status |-> q.status, error |-> q.error, all_results |-> <<>>]
    ELSE ScoreBatches(self, query_vector, q.destination, q.result, 0, <<>>)

\* search_nearest_neighbors from the query quantization to the end of the
\* batch loop (lines 356-408), for a built index and a query it accepts
ScoreCorpus(self, query_vector) ==
    ScoreQuantized(self, query_vector,
        quantize_query_vector(self, query_vector, self.quantized_vectors[1].centroid))

\* lines 376-403 for a corpus of at most batch_size vectors: what
\* compute_batch_quantized_scores returns for the one batch, with the
\* quantized query q that quantize_query_vector returned
FirstBatchScores(self, query_vector, q) ==
    compute_batch_quantized_scores(self.scorer, q.destination, q.result,
        IF self.config.index_bits = 1
        THEN self.quantized_vectors[1].vectors
        ELSE self.quantized_vectors[1].unpacked_vectors,
        self.quantized_vectors[1].corrections,
        [i \in 1..Len(self.quantized_vectors[1].vectors) |-> i - 1],
        self.config.query_bits, self.quantized_vectors[1].dimension,
        query_centroid_dp(self, query_vector))

(***************************************************************************)
(* The inputs of the model                                                 *)
(***************************************************************************)
MaxDim == 2
MaxVectors == 2
MaxK == 3
MaxCalls == 2

FiniteComponents == {FromInt(-1), FromInt(1)}
SeqsUpTo(S, n) == UNION {[1..m -> S] : m \in 0..n}
\* Vec<f32> of up to MaxDim components: every finite one, one with a NaN and
\* one with an infinity; and collections of up to MaxVectors of them
VectorInputs ==
    SeqsUpTo(FiniteComponents, MaxDim) \cup {<<NaN>>, <<FromInt(1), PInf>>}
BuildInputs == SeqsUpTo(VectorInputs, MaxVectors)
KInputs == 0..MaxK
\* query_bits and index_bits in and out of 1..8; 1 and 4 have kernels of
\* their own, 2 stands for the other widths
BitsInputs == {0, 1, 2, 4, 9}
ConfigInputs ==
    {QuantizedIndexConfig(qb, 1, sf, None, Some(2)) :
        qb \in BitsInputs, sf \in {"Euclidean", "Cosine", "MaximumInnerProduct"}}
    \cup {QuantizedIndexConfig(4, ib, "Euclidean", None, Some(2)) : ib \in BitsInputs}

\* the instances QuantizedIndex::new returns for ConfigInputs
NewInstances ==
    {QuantizedIndex_new(c).instance[1] :
        c \in {c \in ConfigInputs : QuantizedIndex_new(c).status = "ok"}}
\* BuildValues over the inputs (it reads only the configuration of self),
\* computed once: the triples <<self, vectors, BuildValues(self, vectors)>>
BuildTable ==
    {<<s, vs, BuildValues(s, vs)>> : s \in NewInstances, vs \in BuildInputs}
BuildValuesOf(self, vectors) ==
    (CHOOSE e \in BuildTable : e[1] = self /\ e[2] = vectors)[3]
BuiltInstances ==
    {[e[1] EXCEPT !.quantized_vectors = Some(e[3].values)] :
        e \in {e \in BuildTable : e[3].status = "ok"}}
\* An index whose corpus needs more than one batch.  build_index of n copies
\* of one vector with components 1.0 and -1.0 stores n copies of the entry
\* of the one-vector corpus: the centroid (n * x) / n is x exactly, and every
\* vector is quantized against that centroid.
MaxExtra == 1
Repeat(x, n) == [i \in 1..n |-> x]
BuiltFromCopies(self, n, one) ==
    [self EXCEPT !.quantized_vectors =
        Some(QuantizedVectorValuesImpl_new(
                 Repeat(one.vectors[1], n), Repeat(one.unpacked_vectors[1], n),
                 Repeat(one.corrections[1], n), one.centroid))]
BatchConfigs == {QuantizedIndexConfig(qb, 1, "Euclidean", None, Some(2)) : qb \in {1, 2, 4}}
\* <<config, vector, n, the instance after new(config) and build_index of n
\* copies of vector>>
BatchBuilt ==
    {<<c, v, n, BuiltFromCopies(QuantizedIndex_new(c).instance[1], n,
                                BuildValues(QuantizedIndex_new(c).instance[1], <<v>>).values)>> :
        c \in BatchConfigs, v \in [1..MaxDim -> FiniteComponents],
        n \in (batch_size + 1)..(batch_size + MaxExtra)}
BatchInstances == {e[4] : e \in BatchBuilt}

\* ScoreCorpus over the built instances, computed once: the triples
\* <<self, query_vector, ScoreCorpus(self, query_vector)>>
ScoreTable ==
    {<<s, q, ScoreCorpus(s, q)>> :
        s \in BuiltInstances \cup BatchInstances, q \in VectorInputs}
ScoreCorpusOf(self, query_vector) ==
    (CHOOSE e \in ScoreTable : e[1] = self /\ e[2] = query_vector)[3]

(***************************************************************************)
(* build_index and search_nearest_neighbors as a whole: the outcome the    *)
(* caller sees and the instance after the call                             *)
(***************************************************************************)
Outcome(status, error, size, dimension, results, all_results) ==
    [status |-> status, error |-> error, size |-> size, dimension |-> dimension,
     results |-> results, all_results |-> all_results]
Failed(status, error) == Outcome(status, error, 0, 0, <<>>, <<>>)

\* BuildAssign that drops the stored corpus when the build fails
BuildAssignClearingOnError(self, built) ==
    IF built.status # "ok"
    THEN [self |-> [self EXCEPT !.quantized_vectors = None],
          outcome |-> Failed(built.status, built.error)]
    ELSE [self |-> [self EXCEPT !.quantized_vectors = Some(built.values)],
          outcome |-> Outcome("ok", "", Len(built.values.vectors),
                              built.values.dimension, <<>>, <<>>)]

\* BuildAssign that assigns before it looks at the result of the build
BuildAssignBeforeValidation(self, built) ==
    [self |-> [self EXCEPT !.quantized_vectors = Some(built.values)],
     outcome |-> IF built.status # "ok" THEN Failed(built.status, built.error)
                 ELSE Outcome("ok", "", Len(built.values.vectors),
                              built.values.dimension, <<>>, <<>>)]

\* line 281: self.quantized_vectors is assigned once everything succeeded
BuildAssign(self, built) ==
    IF built.status # "ok"
    THEN [self |-> self, outcome |-> Failed(built.status, built.error)]
    ELSE [self |-> [self EXCEPT !.quantized_vectors = Some(built.values)],
          outcome |-> Outcome("ok", "", Len(built.values.vectors),
                              built.values.dimension, <<>>, <<>>)]

build_index(self, vectors) ==
    BuildAssign(self, BuildValuesOf([self EXCEPT !.quantized_vectors = None], vectors))

\* all_results.sort_by(|a, b| b.1.partial_cmp(&a.1).unwrap_or(Equal)): a
\* stable sort; x goes before the first entry whose score is less than x's
RECURSIVE InsertByScore(_, _)
InsertByScore(sorted, x) ==
    IF sorted = <<>> THEN <<x>>
    ELSE IF FLt(Head(sorted)[2], x[2]) THEN <<x>> \o sorted
    ELSE <<Head(sorted)>> \o InsertByScore(Tail(sorted), x)
RECURSIVE SortTo(_, _)
SortTo(all_results, n) ==
    IF n = 0 THEN <<>> ELSE InsertByScore(SortTo(all_results, n - 1), all_results[n])
\* a sort that is not stable: x goes before the entries of equal score
RECURSIVE InsertBeforeEqual(_, _)
InsertBeforeEqual(sorted, x) ==
    IF sorted = <<>> THEN <<x>>
    ELSE IF FLe(Head(sorted)[2], x[2]) THEN <<x>> \o sorted
    ELSE <<Head(sorted)>> \o InsertBeforeEqual(Tail(sorted), x)
RECURSIVE UnstableSortTo(_, _)
UnstableSortTo(all_results, n) ==
    IF n = 0 THEN <<>>
    ELSE InsertBeforeEqual(UnstableSortTo(all_results, n - 1), all_results[n])
sort_unstable_by_score(all_results) == UnstableSortTo(all_results, Len(all_results))
\* sort_by_score that leaves the scoring order
unsorted(all_results) == all_results
sort_by_score(all_results) == SortTo(all_results, Len(all_results))

QueryResult(index, score) == [index |-> index, score |-> score, original_score |-> None]

\* TopK that keeps the end of the sorted list instead of its start
BottomK(self, k, scored) ==
    LET sorted == sort_by_score(scored.all_results)
        skip == Len(sorted) - Min(k, Len(sorted))
    IN  IF scored.status # "ok"
        THEN [self |-> self, outcome |-> Failed(scored.status, scored.error)]
        ELSE [self |-> self,
              outcome |-> Outcome("ok", "", 0, 0,
                              [i \in 1..Min(k, Len(sorted)) |->
                                  QueryResult(sorted[skip + i][1], sorted[skip + i][2])],
                              scored.all_results)]

\* lines 410-424: sort, truncate to k, convert
TopK(self, k, scored) ==
    LET sorted == sort_by_score(scored.all_results)
    IN  IF scored.status # "ok"
        THEN [self |-> self, outcome |-> Failed(scored.status, scored.error)]
        ELSE [self |-> self,
              outcome |-> Outcome("ok", "", 0, 0,
                              [i \in 1..Min(k, Len(sorted)) |->
                                  QueryResult(sorted[i][1], sorted[i][2])],
                              scored.all_results)]

\* search_nearest_neighbors that validates the query before it looks at the
\* state of the index
search_validating_query_first(self, query_vector, k) ==
    IF Len(query_vector) = 0
    THEN [self |-> self, outcome |-> Failed("err", ERR_EMPTY_QUERY)]
    ELSE IF self.quantized_vectors = None
    THEN [self |-> self, outcome |-> Failed("err", ERR_NOT_BUILT)]
    ELSE IF k = 0
    THEN [self |-> self, outcome |-> Outcome("ok", "", 0, 0, <<>>, <<>>)]
    ELSE IF Len(query_vector) # self.quantized_vectors[1].dimension
    THEN [self |-> self, outcome |-> Failed("err", ERR_QUERY_DIMENSION)]
    ELSE TopK(self, Min(k, Len(self.quantized_vectors[1].vectors)),
              ScoreCorpusOf(self, query_vector))

\* search_nearest_neighbors that resets the index when it rejects a query
search_resetting_on_error(self, query_vector, k) ==
    IF self.quantized_vectors = None
    THEN [self |-> self, outcome |-> Failed("err", ERR_NOT_BUILT)]
    ELSE IF Len(query_vector) = 0
    THEN [self |-> [self EXCEPT !.quantized_vectors = None],
          outcome |-> Failed("err", ERR_EMPTY_QUERY)]
    ELSE IF k = 0
    THEN [self |-> self, outcome |-> Outcome("ok", "", 0, 0, <<>>, <<>>)]
    ELSE IF Len(query_vector) # self.quantized_vectors[1].dimension
    THEN [self |-> [self EXCEPT !.quantized_vectors = None],
          outcome |-> Failed("err", ERR_QUERY_DIMENSION)]
    ELSE TopK(self, Min(k, Len(self.quantized_vectors[1].vectors)),
              ScoreCorpusOf(self, query_vector))

search_nearest_neighbors(self, query_vector, k) ==
    IF self.quantized_vectors = None
    THEN [self |-> self, outcome |-> Failed("err", ERR_NOT_BUILT)]
    ELSE IF Len(query_vector) = 0
    THEN [self |-> self, outcome |-> Failed("err", ERR_EMPTY_QUERY)]
    ELSE IF k = 0
    THEN [self |-> self, outcome |-> Outcome("ok", "", 0, 0, <<>>, <<>>)]
    ELSE IF Len(query_vector) # self.quantized_vectors[1].dimension
    THEN [self |-> self, outcome |-> Failed("err", ERR_QUERY_DIMENSION)]
    ELSE TopK(self, Min(k, Len(self.quantized_vectors[1].vectors)),
              ScoreCorpusOf(self, query_vector))

(***************************************************************************)
(* The state machine: one QuantizedIndex and the calls made on it          *)
(***************************************************************************)
VARIABLES
    index,      \* the instance: None when QuantizedIndex::new returned Err
    call,       \* the last call and its arguments
    outcome,    \* what the last call returned
    calls       \* how many calls were made on the instance

vars == <<index, call, outcome, calls>>

Call(op, config, vectors, query_vector, k) ==
    [op |-> op, config |-> config, vectors |-> vectors,
     query_vector |-> query_vector, k |-> k]

\* a panic aborts the program; without an instance there is nothing to call
Callable == index # None /\ outcome.status # "panic" /\ calls < MaxCalls

Init ==
    \E config \in ConfigInputs :
        LET r == QuantizedIndex_new(config)
        IN  /\ index = r.instance
            /\ call = Call("new", config, <<>>, <<>>, 0)
            /\ outcome = Failed(r.status, r.error)
            /\ calls = 0

Build ==
    /\ Callable
    /\ \E vectors \in BuildInputs :
           LET r == build_index(index[1], vectors)
           IN  /\ index' = Some(r.self)
               /\ call' = Call("build_index", call.config, vectors, <<>>, 0)
               /\ outcome' = r.outcome
               /\ calls' = calls + 1

Search ==
    /\ Callable
    /\ \E query_vector \in VectorInputs, k \in KInputs :
           LET r == search_nearest_neighbors(index[1], query_vector, k)
           IN  /\ index' = Some(r.self)
               /\ call' = Call("search_nearest_neighbors", call.config, <<>>,
                               query_vector, k)
               /\ outcome' = r.outcome
               /\ calls' = calls + 1

Next == Build \/ Search

Spec == Init /\ [][Next]_vars

\* the calls on an index whose corpus needs more than one batch: the state
\* after new(config) and build_index(n copies of vector) returned Ok
BatchInit ==
    \E e \in BatchBuilt :
        /\ index = Some(e[4])
        /\ call = Call("build_index", e[1], Repeat(e[2], e[3]), <<>>, 0)
        /\ outcome = Outcome("ok", "", e[3], Len(e[2]), <<>>, <<>>)
        /\ calls = 1

BatchSpec == BatchInit /\ [][Next]_vars

(***************************************************************************)
(* The quantizer and the kernels called on their own: one call of          *)
(* compute_packed_bit_dot_product, of a batch kernel, of pack_as_binary or  *)
(* of scalar_quantize, on arguments of the caller's choice                  *)
(***************************************************************************)
MaxBytes == 2
MaxTargets == 2
MaxBits == 9

\* u8 values: bytes of packed buffers, and 4-bit query components
ByteInputs == {0, 1, 128, 170, 255}
NibbleInputs == {0, 1, 7, 15}
PackedInputs == SeqsUpTo(ByteInputs, MaxBytes)
\* dimensions of one, of less than one, of exactly one and of more than one
\* byte; the queries of dimension d repeat one value or count upwards
DimensionInputs == {1, 7, 8, 9}
QueryInputs(d) ==
    {[i \in 1..d |-> v] : v \in NibbleInputs} \cup {[i \in 1..d |-> (i + v) % 16] : v \in {0, 9}}
\* quantized vectors: every 0/1 array of up to 9 components, 0/1 arrays of
\* two whole bytes, and arrays that hold a value other than 0 and 1
BitPatterns == {<<0, 0, 0, 0, 0, 0, 0, 0>>, <<1, 0, 0, 0, 0, 0, 0, 0>>,
                <<0, 0, 0, 0, 0, 0, 0, 1>>, <<1, 0, 1, 1, 0, 0, 1, 0>>,
                <<1, 1, 1, 1, 1, 1, 1, 1>>}
UnpackedInputs ==
    SeqsUpTo({0, 1}, 9)
    \cup {x \o y : x \in BitPatterns, y \in BitPatterns}
    \cup {<<2>>, <<1, 0, 2>>, <<0, 1, 1, 0, 1, 0, 0, 1, 3>>, <<255, 1>>}
\* destinations: n bytes, zeroed or holding earlier contents
DestinationInputs(n) == {[i \in 1..m |-> v] : m \in 0..n, v \in {0, 7}}
\* f32 vectors and centroids for scalar_quantize
QuantizeComponents == {FromInt(-1), 0, Lit(1, 2), FromInt(1)}
QuantizeVectors ==
    SeqsUpTo(QuantizeComponents, MaxDim) \cup {<<NaN>>, <<FromInt(1), PInf>>, <<NInf, PInf>>}
CentroidInputs == {<<>>, <<0>>, <<FromInt(1)>>, <<0, 0>>, <<Lit(1, 2), FromInt(-1)>>}
QuantizerInputs ==
    {OptimizedScalarQuantizer_new(None, Some(2), Some(sf)) :
        sf \in {"Euclidean", "Cosine", "MaximumInnerProduct"}}
QuantizeBits == {0, 1, 2, 4, 8, MaxBits}

KernelInit ==
    /\ index = None
    /\ call = [op |-> "none"]
    /\ outcome = [status |-> "ok"]
    /\ calls = 0

PackedBitDot ==
    /\ calls = 0
    /\ \E q \in PackedInputs, d \in PackedInputs :
        /\ call' = [op |-> "compute_packed_bit_dot_product", q |-> q, d |-> d]
        /\ outcome' = compute_packed_bit_dot_product(q, d)
    /\ calls' = 1
    /\ UNCHANGED index

BatchFourBit ==
    /\ calls = 0
    /\ \E dimension \in DimensionInputs, num_vectors \in 0..MaxTargets :
        \E query_vector \in QueryInputs(dimension),
           continuous_buffer \in [1..(num_vectors * ((dimension + 7) \div 8)) -> ByteInputs] :
            /\ call' = [op |-> "compute_batch_four_bit_dot_product_direct_packed",
                        query_vector |-> query_vector,
                        continuous_buffer |-> continuous_buffer,
                        num_vectors |-> num_vectors, dimension |-> dimension]
            /\ outcome' = compute_batch_four_bit_dot_product_direct_packed(
                              query_vector, continuous_buffer, num_vectors, dimension)
    /\ calls' = 1
    /\ UNCHANGED index

BatchOneBit ==
    /\ calls = 0
    /\ \E packed_dimension \in 1..MaxBytes, num_vectors \in 0..MaxTargets :
        \E query_vector \in [1..packed_dimension -> ByteInputs],
           continuous_buffer \in [1..(num_vectors * packed_dimension) -> ByteInputs] :
            /\ call' = [op |-> "compute_batch_one_bit_dot_product_direct_packed",
                        query_vector |-> query_vector,
                        continuous_buffer |-> continuous_buffer,
                        num_vectors |-> num_vectors,
                        packed_dimension |-> packed_dimension]
            /\ outcome' = compute_batch_one_bit_dot_product_direct_packed(
                              query_vector, continuous_buffer, num_vectors, packed_dimension)
    /\ calls' = 1
    /\ UNCHANGED index

PackAsBinary ==
    /\ calls = 0
    /\ \E vector \in UnpackedInputs, packed \in DestinationInputs(MaxBytes + 1) :
        /\ call' = [op |-> "pack_as_binary", vector |-> vector, packed |-> packed]
        /\ outcome' = pack_as_binary(vector, packed)
    /\ calls' = 1
    /\ UNCHANGED index

ScalarQuantize ==
    /\ calls = 0
    /\ \E self \in QuantizerInputs, vector \in QuantizeVectors, centroid \in CentroidInputs,
          destination \in DestinationInputs(MaxDim + 1), bits \in QuantizeBits :
        /\ call' = [op |-> "scalar_quantize", self |-> self, vector |-> vector,
                    destination |-> destination, bits |-> bits, centroid |-> centroid]
        /\ outcome' = scalar_quantize(self, vector, destination, bits, centroid)
    /\ calls' = 1
    /\ UNCHANGED index

\* compute_batch_quantized_scores on 1-bit targets: the caller quantized
\* the targets to 0/1 arrays (unpacked_vectors) and passes their MSB-first
\* packed form as target_vectors, one correction record for each of them,
\* and a list of ordinals that may repeat, reorder or exceed the targets
ScorerInputs ==
    {BinaryQuantizedScorer_new(sf) : sf \in {"Euclidean", "Cosine", "MaximumInnerProduct"}}
ScoreDimensions == {2, 9}
BitVectors(d) == {[i \in 1..d |-> 0], [i \in 1..d |-> 1], [i \in 1..d |-> i % 2]}
QuantizedQueries(query_bits, d) == IF query_bits = 1 THEN BitVectors(d) ELSE QueryInputs(d)
CorrectionInputs ==
    {QuantizationResult(FromInt(-1), FromInt(1), FromInt(2), FromInt(1)),
     QuantizationResult(-Lit(1, 2), Lit(1, 2), FromInt(1), FromInt(2))}
OrdInputs(n) == SeqsUpTo(0..n, MaxTargets)
PackedForm(unpacked, d) == pack_as_binary(unpacked, Zeros((d + 7) \div 8)).packed

BatchScores ==
    /\ calls = 0
    /\ \E self \in ScorerInputs, dimension \in ScoreDimensions, query_bits \in {1, 2, 4},
          n \in 0..MaxTargets :
        \E quantized_query \in QuantizedQueries(query_bits, dimension),
           unpacked_vectors \in [1..n -> BitVectors(dimension)],
           target_corrections \in [1..n -> CorrectionInputs],
           target_ords \in OrdInputs(n) :
            LET query_corrections == QuantizationResult(-Lit(1, 2), FromInt(1), FromInt(3), FromInt(1))
                centroid_dp == Lit(1, 2)
                target_vectors == [t \in 1..n |-> PackedForm(unpacked_vectors[t], dimension)]
            IN  /\ call' = [op |-> "compute_batch_quantized_scores", self |-> self,
                            quantized_query |-> quantized_query,
                            query_corrections |-> query_corrections,
                            target_vectors |-> target_vectors,
                            unpacked_vectors |-> unpacked_vectors,
                            target_corrections |-> target_corrections,
                            target_ords |-> target_ords, query_bits |-> query_bits,
                            dimension |-> dimension, centroid_dp |-> centroid_dp]
                /\ outcome' = compute_batch_quantized_scores(self, quantized_query,
                                  query_corrections, target_vectors, target_corrections,
                                  target_ords, query_bits, dimension, centroid_dp)
    /\ calls' = 1
    /\ UNCHANGED index

\* optimize_intervals step by step, as scalar_quantize calls it: the initial
\* loss and scale (lines 189-194), then one round of the loop per step.
\* outcome holds the interval and the loss so far, the rounds left and the
\* number of candidates accepted.
Refining(status, interval, loss, left, accepted) ==
    [status |-> status, interval |-> interval, loss |-> loss, left |-> left,
     accepted |-> accepted]
OptimizeBegin(self, vector, interval, norm2, points, initial_loss, scale) ==
    /\ call' = [op |-> "optimize_intervals", self |-> self, vector |-> vector,
                norm2 |-> norm2, points |-> points, scale |-> scale]
    /\ outcome' = IF initial_loss.status = "panic"
                  THEN Refining("panic", interval, NaN, 0, 0)
                  ELSE IF ~is_finite(scale) \/ self.iters = 0
                  THEN Refining("ok", interval, initial_loss.loss, 0, 0)
                  ELSE Refining("running", interval, initial_loss.loss, self.iters, 0)
OptimizeStart ==
    /\ calls = 0
    /\ \E self \in QuantizerInputs, vector \in QuantizeVectors, centroid \in CentroidInputs,
          bits \in QuantizeBits \cap 1..8 :
        LET working_vector == [i \in 1..Len(vector) |-> FSub(vector[i], centroid[i])]
            initial == InitialInterval(working_vector, bits)
            norm2 == Norm2(working_vector)
        IN  /\ Len(vector) = Len(centroid)
            /\ initial.status = "ok"
            /\ OptimizeBegin(self, working_vector, initial.interval, norm2, Pow2(bits),
                   compute_loss(self, working_vector, initial.interval, Pow2(bits), norm2),
                   FDiv(FSub(FromInt(1), self.lambda), norm2))
    /\ calls' = 1
    /\ UNCHANGED index

OptimizeAfterRound(r) ==
    outcome' = IF r.step = "panic"
               THEN [outcome EXCEPT !.status = "panic"]
               ELSE IF r.step = "return"
               THEN [outcome EXCEPT !.status = "ok"]
               ELSE Refining(IF outcome.left = 1 THEN "ok" ELSE "running",
                             r.interval, r.loss, outcome.left - 1,
                             outcome.accepted + 1)
OptimizeIteration ==
    /\ call.op = "optimize_intervals"
    /\ outcome.status = "running"
    /\ OptimizeAfterRound(OptimizeRound(call.self, outcome.interval, call.vector,
                                        call.norm2, call.points, call.scale,
                                        outcome.loss))
    /\ calls' = calls + 1
    /\ UNCHANGED <<index, call>>

\* create_direct_packed_buffer on vectors of differing lengths, a selection
\* of ordinals in any order and with repeats, and a slot size
CreateDirectPackedBuffer ==
    /\ calls = 0
    /\ \E vectors \in SeqsUpTo(PackedInputs, MaxTargets), packed_size \in 0..MaxBytes :
        \E indices \in OrdInputs(Len(vectors)) :
            /\ call' = [op |-> "create_direct_packed_buffer", vectors |-> vectors,
                        indices |-> indices, packed_size |-> packed_size]
            /\ outcome' = create_direct_packed_buffer(vectors, indices, packed_size)
    /\ calls' = 1
    /\ UNCHANGED index

\* compute_centroid on a collection whose vectors need not have one length
ComputeCentroid ==
    /\ calls = 0
    /\ \E vectors \in SeqsUpTo(QuantizeVectors, MaxVectors) :
        /\ call' = [op |-> "compute_centroid", vectors |-> vectors]
        /\ outcome' = compute_centroid(vectors)
    /\ calls' = 1
    /\ UNCHANGED index

KernelNext ==
    \/ CreateDirectPackedBuffer
    \/ ComputeCentroid
    \/ PackedBitDot
    \/ BatchFourBit
    \/ BatchOneBit
    \/ PackAsBinary
    \/ ScalarQuantize
    \/ BatchScores
    \/ OptimizeStart
    \/ OptimizeIteration

KernelSpec == KernelInit /\ [][KernelNext]_vars

(***************************************************************************)
(* The properties                                                          *)
(***************************************************************************)
Unbuilt == index # None /\ index[1].quantized_vectors = None
Built == index # None /\ index[1].quantized_vectors # None
IsSearch == call.op = "search_nearest_neighbors"
IsBuild == call.op = "build_index"
\* the corpus size and the dimension of a built index
corpus_size == Len(index[1].quantized_vectors[1].vectors)
index_dimension == index[1].quantized_vectors[1].dimension

\* C1: on an index that was never built, every search, whatever the query
\* and k (an empty query and k = 0 included), fails with the 'index not built'
\* error and leaves the index unbuilt.
C1_UnbuiltSearchFails ==
    [][(Unbuilt /\ IsSearch' /\ calls' = calls + 1)
          => (outcome' = Failed("err", ERR_NOT_BUILT) /\ index' = index)]_vars
C1_Witness ==
    /\ Unbuilt /\ IsSearch /\ call.query_vector = <<>> /\ call.k = 0
    /\ outcome.error = ERR_NOT_BUILT

\* C2: a search, successful or failed, leaves the whole instance (corpus
\* entries, centroid, dimension, built state, configuration) as it was.
C2_SearchReadOnly ==
    [][(IsSearch' /\ calls' = calls + 1) => index' = index]_vars
C2_Witness ==
    Built /\ IsSearch /\ outcome.status = "ok" /\ Len(outcome.results) = 2

\* C3: build_index returns an error for an empty collection, for a
\* collection with a vector whose length differs from the first vector's,
\* and for a collection with a NaN or infinite component.
C3_BuildRejectsInvalidInput ==
    (/\ IsBuild
     /\ \/ Len(call.vectors) = 0
        \/ \E v \in 1..Len(call.vectors) : Len(call.vectors[v]) # Len(call.vectors[1])
        \/ \E v \in 1..Len(call.vectors) :
               \E j \in 1..Len(call.vectors[v]) : ~is_finite(call.vectors[v][j]))
        => outcome.status = "err"
C3_Witness ==
    /\ IsBuild /\ Len(call.vectors) = 2
    /\ \A v \in 1..2 : Len(call.vectors[v]) = 2
    /\ \E v \in 1..2 : \E j \in 1..2 : ~is_finite(call.vectors[v][j])
    /\ outcome.error = ERR_INVALID_VALUE

\* C4: a build_index that returns an error leaves the instance as it was:
\* an unbuilt index stays unbuilt, a built one keeps its corpus and centroid.
C4_BuildAtomic ==
    [][(IsBuild' /\ calls' = calls + 1 /\ outcome'.status = "err")
          => index' = index]_vars
C4_Witness ==
    Built /\ IsBuild /\ outcome.status = "err" /\ calls = 2

\* C5: once build_index has succeeded, no call (further build_index calls
\* included) changes the corpus entries, their ordinals or the centroid.
C5_CorpusNeverChanges ==
    [][Built => index'[1].quantized_vectors = index[1].quantized_vectors]_vars

\* C6: the index is unbuilt after construction, becomes built only by a
\* build_index that succeeds, and once built stays built.
C6_LifecycleOneWay ==
    /\ index # None => Unbuilt
    /\ [][/\ (Unbuilt /\ Built') => (IsBuild' /\ outcome'.status = "ok")
          /\ Built => Built']_vars
C6_Witness ==
    Built /\ IsBuild /\ outcome.status = "ok" /\ calls = 2

\* C7: on a built index a search with a non-empty query of the index
\* dimension returns exactly min(k, corpus_size) results.
C7_ResultCount ==
    (/\ IsSearch /\ Built
     /\ Len(call.query_vector) > 0
     /\ Len(call.query_vector) = index_dimension)
        => /\ outcome.status = "ok"
           /\ Len(outcome.results) = Min(call.k, corpus_size)

C10_DimensionMismatchFails ==
    (/\ IsSearch /\ Built
     /\ Len(call.query_vector) > 0
     /\ Len(call.query_vector) # index_dimension)
        => /\ outcome.status = "err"
           /\ outcome.error = ERR_QUERY_DIMENSION

\* C11: on a built corpus of any size, larger than batch_size included, a
\* search with k >= 1 and a query of the index's dimension that the quantizer
\* accepts does not abort, and when it returns Ok it has scored the ordinals
\* 0 .. N-1, each once, whichever batch they fall in.
C11_EveryOrdinalScored ==
    (/\ IsSearch /\ Built
     /\ call.k >= 1
     /\ Len(call.query_vector) = index_dimension
     /\ quantize_query_vector(index[1], call.query_vector,
                              index[1].quantized_vectors[1].centroid).status = "ok")
        => /\ outcome.status # "panic"
           /\ outcome.status = "ok"
                  => [i \in 1..Len(outcome.all_results) |-> outcome.all_results[i][1]]
                         = [i \in 1..corpus_size |-> i - 1]

\* C12: a search on an index whose query_bits is none of 1 and 4 is served
\* by the per-pair fallback of compute_batch_quantized_scores: it does not
\* fail with the unsupported-bit-width error.
C12_FallbackServesOtherWidths ==
    (/\ IsSearch /\ Built
     /\ call.config.query_bits \in (1..8) \ {1, 4}
     /\ call.k >= 1
     /\ Len(call.query_vector) = index_dimension)
        => ~(outcome.status = "err" /\ outcome.error = ERR_UNSUPPORTED_QUERY_BITS)

\* C20: QuantizedIndex::new returns an error when query_bits or index_bits
\* is outside 1..8, and otherwise an unbuilt index that holds exactly the
\* configuration it was given.
C20_NewValidatesBits ==
    call.op = "new"
        => IF call.config.query_bits \notin 1..8 \/ call.config.index_bits \notin 1..8
           THEN outcome.status = "err" /\ index = None
           ELSE /\ outcome.status = "ok"
                /\ index # None
                /\ index[1].quantized_vectors = None
                /\ index[1].config = call.config
C20_Witness ==
    /\ call.op = "new" /\ call.config.query_bits = 4 /\ call.config.index_bits = 9
    /\ outcome.status = "err" /\ index = None

\* the 0/1 array a packed buffer stands for: bit 7 of each byte first
UnpackBits(packed) ==
    [i \in 1..(8 * Len(packed)) |-> Bit(packed[(i - 1) \div 8 + 1], 7 - ((i - 1) % 8))]

\* C13: for packed buffers q and d of equal length,
\* compute_packed_bit_dot_product(q, d) is compute_quantized_dot_product of
\* their MSB-first unpacked 0/1 arrays.
C13_PackedEqualsNaive ==
    (call.op = "compute_packed_bit_dot_product" /\ Len(call.q) = Len(call.d))
        => /\ outcome.status = "ok"
           /\ outcome.value =
                  compute_quantized_dot_product(UnpackBits(call.q), UnpackBits(call.d)).value

\* target i (from 1) of a buffer of back-to-back targets of packed_dimension
\* bytes each, and the first n components of an array
TargetSlice(continuous_buffer, i, packed_dimension) ==
    [j \in 1..packed_dimension |-> continuous_buffer[(i - 1) * packed_dimension + j]]
FirstN(array, n) == [i \in 1..n |-> array[i]]

\* C14: entry i of the batched four-bit kernel is the naive dot product of
\* the query with the first D MSB-first unpacked bits of target i, and
\* entry i of the batched one-bit kernel is compute_packed_bit_dot_product
\* of the packed query with target i; the entries are in target order.
C14_BatchEqualsPairwise ==
    /\ call.op = "compute_batch_four_bit_dot_product_direct_packed"
         => /\ outcome.status = "ok"
            /\ Len(outcome.results) = call.num_vectors
            /\ \A i \in 1..call.num_vectors :
                   outcome.results[i] =
                       compute_quantized_dot_product(
                           call.query_vector,
                           FirstN(UnpackBits(TargetSlice(call.continuous_buffer, i,
                                                         (call.dimension + 7) \div 8)),
                                  call.dimension)).value
    /\ call.op = "compute_batch_one_bit_dot_product_direct_packed"
         => /\ outcome.status = "ok"
            /\ Len(outcome.results) = call.num_vectors
            /\ \A i \in 1..call.num_vectors :
                   outcome.results[i] =
                       compute_packed_bit_dot_product(
                           call.query_vector,
                           TargetSlice(call.continuous_buffer, i,
                                       call.packed_dimension)).value
C14_Witness ==
    /\ call.op = "compute_batch_four_bit_dot_product_direct_packed"
    /\ call.dimension = 9 /\ call.num_vectors = 2
    /\ outcome.results[1] = 7 /\ outcome.results[2] = 0

\* C15: pack_as_binary of a 0/1 array of 8n components into n bytes
\* succeeds, and expanding each byte MSB-first gives the array back.
C15_PackRoundTrip ==
    (/\ call.op = "pack_as_binary"
     /\ Len(call.vector) % 8 = 0
     /\ Len(call.packed) = Len(call.vector) \div 8
     /\ \A i \in 1..Len(call.vector) : call.vector[i] \in {0, 1})
        => /\ outcome.status = "ok"
           /\ UnpackBits(outcome.packed) = call.vector
C15_Witness ==
    /\ call.op = "pack_as_binary"
    /\ call.vector = <<1, 0, 1, 1, 0, 0, 1, 0, 0, 0, 0, 0, 0, 0, 0, 1>>
    /\ call.packed = <<7, 7>>
    /\ outcome.status = "ok" /\ outcome.packed = <<178, 1>>

\* C16: pack_as_binary returns an error when a component is neither 0 nor
\* 1, and when a non-empty input needs more than the destination's bytes.
C16_PackRejects ==
    (/\ call.op = "pack_as_binary"
     /\ \/ \E i \in 1..Len(call.vector) : call.vector[i] \notin {0, 1}
        \/ /\ Len(call.vector) > 0
           /\ Len(call.packed) < (Len(call.vector) + 7) \div 8)
        => outcome.status = "err"
C16_Witness ==
    /\ call.op = "pack_as_binary"
    /\ Len(call.vector) = 9 /\ Len(call.packed) = 1
    /\ \A i \in 1..9 : call.vector[i] \in {0, 1}
    /\ outcome.status = "err"

\* C17: a scalar_quantize that succeeds with bits = 1 leaves only 0 and 1
\* in the destination, and with bits = b in 2..8 only values in
\* 0..(2^b - 1).
C17_BitWidthEnforced ==
    (call.op = "scalar_quantize" /\ outcome.status = "ok")
        => /\ Len(outcome.destination) = Len(call.vector)
           /\ \A i \in 1..Len(outcome.destination) :
                  outcome.destination[i] \in 0..(Pow2(call.bits) - 1)
C17_Witness ==
    /\ call.op = "scalar_quantize" /\ outcome.status = "ok"
    /\ call.bits = 2 /\ Len(call.vector) = 2
    /\ outcome.destination = <<0, 3>>

\* C18: scalar_quantize returns an error and leaves the destination as it
\* was when the vector and the centroid differ in length, when the
\* destination and the vector differ in length, and when bits is outside
\* 1..8.
C18_QuantizeRejects ==
    (/\ call.op = "scalar_quantize"
     /\ \/ Len(call.vector) # Len(call.centroid)
        \/ Len(call.destination) # Len(call.vector)
        \/ call.bits \notin 1..8)
        => /\ outcome.status = "err"
           /\ outcome.destination = call.destination
C18_Witness ==
    /\ call.op = "scalar_quantize"
    /\ call.bits = MaxBits
    /\ Len(call.vector) = 2 /\ Len(call.centroid) = 2
    /\ call.destination = <<7, 7>>
    /\ outcome.status = "err" /\ outcome.destination = <<7, 7>>

\* C19: every QuantizationResult that scalar_quantize returns has
\* lower_interval <= upper_interval.
C19_IntervalOrdered ==
    (call.op = "scalar_quantize" /\ outcome.status = "ok")
        => FLe(outcome.result.lower_interval, outcome.result.upper_interval)
\* the centred vector is <<-1.5, 1>>, the initial interval (-1.2475, 0.7475),
\* and a refinement round is accepted
C19_Witness ==
    /\ call.op = "scalar_quantize" /\ outcome.status = "ok"
    /\ call.bits = 1
    /\ call.vector = <<FromInt(-1), 0>> /\ call.centroid = <<Lit(1, 2), FromInt(-1)>>
    /\ outcome.result.lower_interval = -Lit(15015, 10000)
    /\ outcome.result.upper_interval = Lit(1001, 1000)

\* C21: in the refinement loop a candidate interval replaces the current one
\* only when its loss is strictly smaller than the current loss, and the
\* loop runs at most iters rounds.
C21_AcceptOnlyStrictlySmaller ==
    [][(call.op = "optimize_intervals" /\ outcome.status = "running")
          => /\ outcome'.accepted = outcome.accepted + 1
                    => FLt(outcome'.loss, outcome.loss)
             /\ calls' <= 1 + call.self.iters]_vars


\* the result compute_quantized_score gives for the pair of the call's query
\* and the target of ordinal target_ord, in its unpacked form
SinglePair(target_ord) ==
    compute_quantized_score(call.self, call.quantized_query, call.query_corrections,
        call.unpacked_vectors[target_ord + 1], call.target_corrections[target_ord + 1],
        call.query_bits, call.dimension, call.centroid_dp)
IsBatchScores == call.op = "compute_batch_quantized_scores"
OrdsInRange == \A i \in 1..Len(call.target_ords) : call.target_ords[i] < Len(call.target_vectors)

\* C22: for query_bits = 1 and 1-bit targets, the bit_dot_product and the
\* score that compute_batch_quantized_scores reports for a target equal the
\* ones compute_quantized_score reports for the same quantized query and
\* the unpacked form of the same target.
C22_BatchOneBitEqualsSingle ==
    (IsBatchScores /\ call.query_bits = 1 /\ outcome.status = "ok"
     /\ call.target_ords = [i \in 1..Len(call.target_vectors) |-> i - 1])
        => \A i \in 1..Len(call.target_ords) :
               /\ outcome.results[i].bit_dot_product
                      = SinglePair(call.target_ords[i]).result.bit_dot_product
               /\ outcome.results[i].score = SinglePair(call.target_ords[i]).result.score


\* C23: on every path of compute_batch_quantized_scores and for every list
\* target_ords of ordinals of the targets, the call does not abort, and when
\* it returns Ok it has one result per entry of target_ords, in order, and
\* result i carries the correction record of the target target_ords[i]
\* whose vector it was computed from.
C23_ResultPairsVectorAndCorrection ==
    (IsBatchScores /\ OrdsInRange)
        => /\ outcome.status # "panic"
           /\ outcome.status = "ok"
                  => /\ Len(outcome.results) = Len(call.target_ords)
                     /\ \A i \in 1..Len(call.target_ords) :
                            outcome.results[i].index_corrections
                                = call.target_corrections[call.target_ords[i] + 1]


\* C24: every quantity a search derives from the query (the quantized query
\* with its correction record, and the centroid_dp passed to the scorer) is
\* computed from the same vector: the normalized query under Cosine, the
\* query as given under the other metrics.
C24_QueryNormalizedConsistently ==
    (IsSearch /\ Built /\ call.k >= 1 /\ outcome.status = "ok")
        => LET self == index[1]
               centroid == self.quantized_vectors[1].centroid
               processed == IF self.config.similarity_function = "Cosine"
                            THEN normalize_vector(call.query_vector)
                            ELSE call.query_vector
           IN  /\ quantize_query_vector(self, call.query_vector, centroid)
                      = scalar_quantize(self.quantizer, processed, Zeros(Len(processed)),
                                        self.config.query_bits, centroid)
               /\ query_centroid_dp(self, call.query_vector)
                      = compute_dot_product(processed, centroid)


\* the vector build_index quantizes for input vector i: normalized under
\* Cosine
ProcessedInput(i) ==
    IF index[1].config.similarity_function = "Cosine"
    THEN normalize_vector(call.vectors[i]) ELSE call.vectors[i]

\* C25: after a successful build_index over n vectors of dimension D the
\* corpus reports size n and dimension D and holds one stored vector, one
\* unpacked vector and one correction record per ordinal, those of the input
\* vector of the same position; with index_bits = 1 every stored vector has
\* ceil(D/8) bytes and is the MSB-first packing of the unpacked vector.
C25_CorpusMatchesInput ==
    (IsBuild /\ outcome.status = "ok")
        => LET self == index[1]
               values == self.quantized_vectors[1]
               n == Len(call.vectors)
               D == Len(call.vectors[1])
           IN  /\ outcome.size = n /\ outcome.dimension = D
               /\ corpus_size = n /\ index_dimension = D
               /\ Len(values.unpacked_vectors) = n /\ Len(values.corrections) = n
               /\ \A i \in 1..n :
                      /\ values.unpacked_vectors[i]
                             = scalar_quantize(self.quantizer, ProcessedInput(i), Zeros(D),
                                   self.config.index_bits, values.centroid).destination
                      /\ values.corrections[i]
                             = scalar_quantize(self.quantizer, ProcessedInput(i), Zeros(D),
                                   self.config.index_bits, values.centroid).result
                      /\ self.config.index_bits = 1
                             => /\ Len(values.vectors[i]) = (D + 7) \div 8
                                /\ UnpackBits(values.vectors[i])
                                       = [j \in 1..(8 * ((D + 7) \div 8)) |->
                                             IF j <= D THEN values.unpacked_vectors[i][j]
                                             ELSE 0]
C25_Witness ==
    /\ IsBuild /\ outcome.status = "ok"
    /\ index[1].config.index_bits = 1
    /\ corpus_size = 2 /\ index_dimension = 2
    /\ index[1].quantized_vectors[1].unpacked_vectors = <<<<1, 0>>, <<0, 1>>>>
    /\ index[1].quantized_vectors[1].vectors = <<<<128>>, <<64>>>>


\* C26: a successful build stores the centroid of all its (normalized, under
\* Cosine) input vectors and every corpus entry is quantized against that
\* centroid; a later search quantizes its query against the stored centroid.
C26_OneCentroid ==
    /\ (IsBuild /\ outcome.status = "ok")
           => LET self == index[1]
                  values == self.quantized_vectors[1]
                  centroid == compute_centroid(
                                  [i \in 1..Len(call.vectors) |-> ProcessedInput(i)]).centroid
              IN  /\ values.centroid = centroid
                  /\ \A i \in 1..Len(call.vectors) :
                         LET q == scalar_quantize(self.quantizer, ProcessedInput(i),
                                      Zeros(Len(centroid)), self.config.index_bits, centroid)
                         IN  /\ values.unpacked_vectors[i] = q.destination
                             /\ values.corrections[i] = q.result
    /\ (IsSearch /\ Built /\ call.k >= 1 /\ outcome.status = "ok")
           => outcome.all_results
                  = ScoreQuantized(index[1], call.query_vector,
                        quantize_query_vector(index[1], call.query_vector,
                            index[1].quantized_vectors[1].centroid)).all_results
C26_Witness ==
    /\ IsBuild /\ outcome.status = "ok"
    /\ call.vectors = <<<<FromInt(1), FromInt(-1)>>, <<FromInt(-1), FromInt(1)>>>>
    /\ index[1].quantized_vectors[1].centroid = <<0, 0>>
    /\ index[1].quantized_vectors[1].corrections[1].additional_correction # 0


IsCreateBuffer == call.op = "create_direct_packed_buffer"
C28_PackedBufferLayout ==
    (IsCreateBuffer /\ \A i \in 1..Len(call.indices) : call.indices[i] < Len(call.vectors))
        => /\ outcome.status = "ok"
           /\ Len(outcome.buffer) = Len(call.indices) * call.packed_size
           /\ \A i \in 1..Len(call.indices), j \in 1..call.packed_size :
                  outcome.buffer[(i - 1) * call.packed_size + j]
                      = IF j <= Len(call.vectors[call.indices[i] + 1])
                        THEN call.vectors[call.indices[i] + 1][j]
                        ELSE 0
C28_Witness ==
    /\ IsCreateBuffer
    /\ call.vectors = <<<<255>>, <<1, 128>>>>
    /\ call.indices = <<1, 0>>
    /\ call.packed_size = 2
    /\ outcome.status = "ok"
    /\ outcome.buffer = <<1, 128, 255, 0>>
C28_WitnessTruncated ==
    /\ IsCreateBuffer
    /\ call.vectors = <<<<1, 128>>>>
    /\ call.indices = <<0, 0>>
    /\ call.packed_size = 1
    /\ outcome.buffer = <<1, 1>>

\* C29: compute_centroid returns an error for an empty collection and for a
\* collection whose vectors differ in length; it does not abort.
IsComputeCentroid == call.op = "compute_centroid"
UniformLengths(vectors) == \A v, w \in 1..Len(vectors) : Len(vectors[v]) = Len(vectors[w])
C29_CentroidRejectsEmptyAndRagged ==
    IsComputeCentroid
        => /\ outcome.status # "panic"
           /\ (Len(call.vectors) = 0 \/ ~UniformLengths(call.vectors)) => outcome.status = "err"
\* the part that holds: the empty collection is an error
C29_EmptyIsError ==
    (IsComputeCentroid /\ Len(call.vectors) = 0) => outcome.status = "err"
\* a longer later vector: Ok, with its extra component ignored
C29_RaggedIsNotOk ==
    (IsComputeCentroid /\ ~UniformLengths(call.vectors)) => outcome.status # "ok"


\* the quantized query of the search in the state, and the naive dot
\* product of it with the unpacked corpus vector of ordinal i - 1
SearchQuery ==
    quantize_query_vector(index[1], call.query_vector, index[1].quantized_vectors[1].centroid)
NaiveDot(q, i) ==
    compute_quantized_dot_product(q.destination,
                                  index[1].quantized_vectors[1].unpacked_vectors[i]).value
\* the scores of the batch are the scores the search sorted, and its bit
\* dot products are the naive ones
BatchIsNaive(batch, q) ==
    /\ batch.status = "ok"
    /\ Len(batch.results) = Len(outcome.all_results)
    /\ \A i \in 1..Len(batch.results) :
           /\ batch.results[i].score = outcome.all_results[i][2]
           /\ batch.results[i].bit_dot_product = NaiveDot(q, i)
IsFourBitSearch ==
    /\ IsSearch /\ Built /\ call.k >= 1 /\ outcome.status = "ok"
    /\ index[1].config.query_bits = 4
    /\ corpus_size <= batch_size

\* C30: with query_bits = 4 and any index_bits in 1..8, the bit-level dot
\* product a successful search uses for ordinal i is
\* compute_quantized_dot_product of the quantized query with the unpacked
\* quantized corpus vector of ordinal i.
C30_FourBitDotIsNaive ==
    (IsFourBitSearch /\ index[1].config.index_bits \in 1..8)
        => BatchIsNaive(FirstBatchScores(index[1], call.query_vector, SearchQuery),
                        SearchQuery)
\* the part that holds: index_bits = 1, where the corpus is stored packed
C30_FourBitOverOneBit ==
    (IsFourBitSearch /\ index[1].config.index_bits = 1)
        => BatchIsNaive(FirstBatchScores(index[1], call.query_vector, SearchQuery),
                        SearchQuery)

=========================================================================
